---------------------------- MODULE Spec2Model ----------------------------
(***************************************************************************)
(* Model of the clean-server-requests game-session server:                 *)
(*   csr-server/src/service.rs   registry, sessions, join, game loop       *)
(*   csr-protocol/src/server.rs  RPC surface, routing table, forwarder     *)
(*   csr-protocol/src/event.rs   ServerEventSender (the per-user conduit)  *)
(* Every RPC invocation is a task.  A task takes one step per region in    *)
(* which it holds a lock or touches a channel; steps of different tasks    *)
(* interleave freely.                                                      *)
(***************************************************************************)
EXTENDS Integers, Sequences, FiniteSets, TLC

-----------------------------------------------------------------------------
(* Bounds of the model *)

MaxSessions == 2
MaxUsers == 2
MaxPlayers == 2
MaxJoins == 2
MaxStreams == 2
MaxInbound == 1
MaxRounds == 2
MaxCount == 1
MaxFace == 1
MaxGuess == 2
MaxLists == 1
MaxCrowd == 258

(* Program constants *)

U8 == 256
FirstSessionId == 1

SessionIds == 1..MaxSessions
Users == 1..MaxUsers
\* The display name the k-th join_session call carries: one name per call.
UserNames == <<"a", "b", "c", "d", "e", "f", "g", "h">>
SessionTypes == {"Dice", "Coin"}
PlayerCounts == 1..MaxPlayers

-----------------------------------------------------------------------------
(* HashMap as a function with a finite domain *)

EmptyMap == << >>

MapInsert(m, k, v) == [x \in DOMAIN m \cup {k} |-> IF x = k THEN v ELSE m[x]]

MapRemove(m, k) == [x \in DOMAIN m \ {k} |-> m[x]]

(* Result values.  Ok and every error kind share one record shape. *)

Res(kind, uid, sid, text) == [kind |-> kind, uid |-> uid, sid |-> sid, text |-> text]

Ok == Res("Ok", 0, 0, "")

Pending == Res("Pending", 0, 0, "")

SessionNotFound(sid) == Res("SessionNotFound", 0, sid, "")

UserAlreadyInSession(uid, sid) == Res("UserAlreadyInSession", uid, sid, "")

UserNotInSession(uid, sid) == Res("UserNotInSession", uid, sid, "")

-----------------------------------------------------------------------------
VARIABLES
    nextSessionId,  \* NEXT_SESSION_ID
    sessions,       \* CleanService.sessions: SessionID -> SessionState
    channels,       \* CleanServer.channels: EventRegister -> inbound sender
    hosts,          \* host_session tasks, in the order they started
    joins,          \* join_session tasks, in the order they started
    games,          \* games[t]: the game_thread task spawned by join task t
    events,         \* server_events calls; events[c] also holds conduit c's channels
    lists           \* list_sessions tasks, in the order they started

vars == <<nextSessionId, sessions, channels, hosts, joins, games, events, lists>>

-----------------------------------------------------------------------------
(* host_session *)

\* A counter that the allocation leaves as it was.
FetchAddStuck(n) == n

\* fetch_add(1, Relaxed) on the AtomicU64: the stored value becomes n + 1 (the
\* wrap at 2^64 lies beyond MaxSessions host calls).
FetchAdd(n) == n + 1

NewSessionState(typ, player_count) ==
    [player_count |-> player_count,
     users |-> EmptyMap,
     session_type |-> typ,
     server_event_senders |-> EmptyMap]

\* SessionData::new(sid, typ, users): the descriptor of a session, with the
\* names of its users.  No two users of the model have the same name.
SessionData(sid, typ, names) == [sid |-> sid, session_type |-> typ, users |-> names]

NoData == SessionData(0, "Dice", {})

ReturnedSids == {hosts[h].sid : h \in {i \in DOMAIN hosts : hosts[i].pc = "done"}}

\* NEXT_SESSION_ID.fetch_add(1): the first step of a host_session task.
HostFetchAdd(typ, player_count) ==
    /\ nextSessionId <= MaxSessions
    /\ hosts' = Append(hosts, [pc |-> "insert", typ |-> typ,
                               player_count |-> player_count,
                               sid |-> nextSessionId,
                               before |-> ReturnedSids,
                               data |-> NoData])
    /\ nextSessionId' = FetchAdd(nextSessionId)
    /\ UNCHANGED <<sessions, channels, joins, games, events, lists>>

\* The session lock is a tokio RwLock: fair and write-preferring.  A task
\* holds a read guard of session sid across steps in two places: the quorum
\* test of join_session, between its two reads (the guard of the first is a
\* temporary of the whole condition), and report_error, from the lookup of
\* a conduit to the end of the match on it, the send of the prompt included.
QuorumReadHeld(sid) ==
    \E t \in DOMAIN joins : joins[t].sid = sid /\ joins[t].pc = "quorum_held"

ReportReadHeld(sid) ==
    \E t \in DOMAIN joins : joins[t].sid = sid /\ joins[t].pc = "report_locked"

SessionReadLocked(sid) == QuorumReadHeld(sid) \/ ReportReadHeld(sid)

\* A writer waits in the queue of the lock of session sid: every read asked
\* for after it waits behind it.
WriterQueued(sid) ==
    \E t \in DOMAIN joins : joins[t].sid = sid /\ joins[t].pc = "insert_wait"

\* A list_sessions task holds the read lock of the registry while it iterates.
RegistryReadLocked == \E l \in DOMAIN lists : lists[l].pc = "read"

\* self.sessions.write().await.insert(session_id, session); Ok(SessionData)
HostInsert(h) ==
    /\ hosts[h].pc = "insert"
    /\ ~RegistryReadLocked
    /\ sessions' = MapInsert(sessions, hosts[h].sid,
                             NewSessionState(hosts[h].typ, hosts[h].player_count))
    /\ hosts' = [hosts EXCEPT ![h].pc = "done",
                              ![h].data = SessionData(hosts[h].sid, hosts[h].typ, {})]
    /\ UNCHANGED <<nextSessionId, channels, joins, games, events, lists>>

-----------------------------------------------------------------------------
(* list_sessions *)

\* An entry that leaves the users out.
SessionDataWithoutUsers(sid, s) == SessionData(sid, s.session_type, {})

\* users = s.users.iter().map(|(_, ud)| ud.name.clone()).collect();
\* SessionData::new(*sid, s.session_type, &users)
SessionDataOf(sid, s) ==
    SessionData(sid, s.session_type, {s.users[u] : u \in DOMAIN s.users})

\* self.sessions.read().await.iter(): the first step of a list_sessions task
\* takes the read lock of the registry and fixes the order of the iteration.
ListSessionsLock ==
    /\ Len(lists) < MaxLists
    /\ \E o \in [1..Cardinality(DOMAIN sessions) -> DOMAIN sessions] :
          /\ \A i, j \in DOMAIN o : i # j => o[i] # o[j]
          /\ lists' = Append(lists, [pc |-> "read", order |-> o, idx |-> 1,
                                     ret |-> << >>])
    /\ UNCHANGED <<nextSessionId, sessions, channels, hosts, joins, games, events>>

\* one iteration: let s = session.read().await; ret.push(SessionData::new(..))
ListSessionsRead(l) ==
    LET t == lists[l]
        sid == t.order[t.idx]
    IN
    /\ t.pc = "read"
    /\ t.idx <= Len(t.order)
    /\ ~WriterQueued(sid)
    /\ lists' = [lists EXCEPT ![l].idx = t.idx + 1,
                              ![l].ret = Append(t.ret, SessionDataOf(sid, sessions[sid]))]
    /\ UNCHANGED <<nextSessionId, sessions, channels, hosts, joins, games, events>>

\* Ok(ret): the iteration is over and the read lock released.
ListSessionsReturn(l) ==
    LET t == lists[l] IN
    /\ t.pc = "read"
    /\ t.idx > Len(t.order)
    /\ lists' = [lists EXCEPT ![l].pc = "done"]
    /\ UNCHANGED <<nextSessionId, sessions, channels, hosts, joins, games, events>>

-----------------------------------------------------------------------------
(* Envelope values: ServerRequest prompts and ClientResponse responses *)

NoErr == Res("None", 0, 0, "")

Prompt(tag, text, a, b, err) == [tag |-> tag, text |-> text, a |-> a, b |-> b, err |-> err]

PingMsg(text) == Prompt("Ping", text, 0, 0, NoErr)

RollDiceMsg(sides, count) == Prompt("RollDice", "", sides, count, NoErr)

FlipCoinMsg(count) == Prompt("FlipCoin", "", count, 0, NoErr)

WinnerMsg(uid, name) == Prompt("Winner", name, uid, 0, NoErr)

TryAgainMsg == Prompt("TryAgain", "", 0, 0, NoErr)

\* ServerRequest::ServerError(format!("{}", ew)): the formatted error is kept as
\* the error value it was formatted from.
ServerErrorMsg(err) == Prompt("Error", "", 0, 0, err)

Response(tag, text, dice, coins, again) ==
    [tag |-> tag, text |-> text, dice |-> dice, coins |-> coins, again |-> again]

Pong(text) == Response("Pong", text, << >>, << >>, FALSE)

DiceGuess(v) == Response("DiceGuess", "", v, << >>, FALSE)

CoinGuess(v) == Response("CoinGuess", "", << >>, v, FALSE)

Again(b) == Response("Again", "", << >>, << >>, b)

ClientErrorMsg(e) == Response("ClientError", e, << >>, << >>, FALSE)

\* recv() returning None: the channel is closed and empty.
NoResponse == Response("None", "", << >>, << >>, FALSE)

Coins == {"Heads", "Tails"}

SeqsUpTo(S, n) == UNION {[1..k -> S] : k \in 0..n}

Min(a, b) == IF a < b THEN a ELSE b

-----------------------------------------------------------------------------
(* event.rs: ServerEventSender.  Each operation sends its prompt (the Send    *)
(* step of the caller) and then maps the value dequeued by poll; the          *)
(* operators below are that second half, applied to the dequeued value.      *)

ClientDisconnected == Res("ClientDisconnected", 0, 0, "")

ClientError(e) == Res("ClientError", 0, 0, e)

InvalidClientResponse == Res("InvalidClientResponse", 0, 0, "")

\* What a conduit call returns: res is Ok or the error, and on Ok exactly one
\* of text, dice, coins, again carries the payload.
Value(res, text, dice, coins, again) ==
    [res |-> res, text |-> text, dice |-> dice, coins |-> coins, again |-> again]

Fail(err) == Value(err, "", << >>, << >>, FALSE)

\* A poll that drops the text of a client error.
poll_no_text(deq) ==
    IF deq.tag = "None" THEN ClientDisconnected
    ELSE IF deq.tag = "ClientError" THEN ClientError("")
    ELSE Ok

\* A poll that takes a closed, empty queue for a response like any other.
poll_no_close(deq) ==
    IF deq.tag = "ClientError" THEN ClientError(deq.text) ELSE Ok

\* poll(): Err(ClientDisconnected) on None, Err(ClientError(e)) on ClientError(e),
\* otherwise Ok(r).  The result is the error, or Ok with the response r.
poll(deq) ==
    IF deq.tag = "None" THEN ClientDisconnected
    ELSE IF deq.tag = "ClientError" THEN ClientError(deq.text)
    ELSE Ok

ping(deq) ==
    IF poll(deq) # Ok THEN Fail(poll(deq))
    ELSE IF deq.tag = "Pong" THEN Value(Ok, deq.text, << >>, << >>, FALSE)
    ELSE Fail(InvalidClientResponse)

\* A roll_dice that accepts every response that is not an error.
roll_dice_any(deq) ==
    IF poll(deq) # Ok THEN Fail(poll(deq))
    ELSE Value(Ok, "", deq.dice, << >>, FALSE)

roll_dice(deq) ==
    IF poll(deq) # Ok THEN Fail(poll(deq))
    ELSE IF deq.tag = "DiceGuess" THEN Value(Ok, "", deq.dice, << >>, FALSE)
    ELSE Fail(InvalidClientResponse)

flip_coin(deq) ==
    IF poll(deq) # Ok THEN Fail(poll(deq))
    ELSE IF deq.tag = "CoinGuess" THEN Value(Ok, "", << >>, deq.coins, FALSE)
    ELSE Fail(InvalidClientResponse)

try_again(deq) ==
    IF poll(deq) # Ok THEN Fail(poll(deq))
    ELSE IF deq.tag = "Again" THEN Value(Ok, "", << >>, << >>, deq.again)
    ELSE Fail(InvalidClientResponse)

\* The request-response operation a game phase uses, and its prompt.
Reply(op, deq) ==
    CASE op = "ping" -> ping(deq)
      [] op = "roll_dice" -> roll_dice(deq)
      [] op = "flip_coin" -> flip_coin(deq)
      [] op = "try_again" -> try_again(deq)

\* The last request-response call a game thread completed: the operation, the
\* conduit, what poll dequeued, what the call returned, and whether the inbound
\* queue was closed and how many responses it held when poll ran.
NoCall ==
    [op |-> "none", conduit |-> 0, deq |-> NoResponse, ret |-> Fail(NoErr),
     closed |-> FALSE, queued |-> 0]

-----------------------------------------------------------------------------
(* join_session, game_setup, game_setup_impl *)

\* The iteration orders a HashMap with key set S can have.
Orders(S) == {o \in [1..Cardinality(S) -> S] : \A i, j \in DOMAIN o : i # j => o[i] # o[j]}

NoGame ==
    [state |-> "none", typ |-> "Dice", users |-> EmptyMap, order |-> << >>,
     cb |-> EmptyMap, phase |-> "ping", stage |-> "send", idx |-> 1,
     sides |-> 0, count |-> 0, results |-> << >>, flips |-> << >>,
     winner |-> 0, winner_score |-> 0, username |-> "", play_again |-> TRUE,
     rounds |-> 0, result |-> Pending, last |-> NoCall,
     scores |-> << >>,   \* the scores of the round, in polling order
     votes |-> << >>]    \* what try_again returned in the round, in polling order

NewJoin(sid, uid, name, pc, ret) ==
    [pc |-> pc, sid |-> sid, uid |-> uid, name |-> name, ret |-> ret,
     typ |-> "Dice", users |-> EmptyMap, order |-> << >>, idx |-> 1,
     cb |-> EmptyMap]

\* A join that does not look the session up.
JoinWithoutLookup(sid, uid, name) ==
    /\ Len(joins) < MaxJoins
    /\ name = UserNames[Len(joins) + 1]
    /\ joins' = Append(joins, NewJoin(sid, uid, name, "check", Pending))
    /\ games' = Append(games, NoGame)
    /\ UNCHANGED <<nextSessionId, sessions, channels, hosts, events, lists>>

\* get_session(sid): the first step of a join_session task.
JoinGetSession(sid, uid, name) ==
    /\ Len(joins) < MaxJoins
    /\ name = UserNames[Len(joins) + 1]
    /\ joins' = Append(joins,
                       IF sid \in DOMAIN sessions
                       THEN NewJoin(sid, uid, name, "check", Pending)
                       ELSE NewJoin(sid, uid, name, "done", SessionNotFound(sid)))
    /\ games' = Append(games, NoGame)
    /\ UNCHANGED <<nextSessionId, sessions, channels, hosts, events, lists>>

\* if s.read().await.users.contains_key(&uid) { return Err(UserAlreadyInSession) }
JoinCheck(t) ==
    LET j == joins[t] IN
    /\ j.pc = "check"
    /\ ~WriterQueued(j.sid)
    /\ joins' = [joins EXCEPT ![t] =
                   IF j.uid \in DOMAIN sessions[j.sid].users
                   THEN [j EXCEPT !.pc = "done",
                                  !.ret = UserAlreadyInSession(j.uid, j.sid)]
                   ELSE [j EXCEPT !.pc = "insert"]]
    /\ UNCHANGED <<nextSessionId, sessions, channels, hosts, games, events, lists>>

\* s.write().await while a read guard is out: the writer joins the queue of
\* the lock.
JoinWriteWait(t) ==
    LET j == joins[t] IN
    /\ j.pc = "insert"
    /\ SessionReadLocked(j.sid)
    /\ joins' = [joins EXCEPT ![t].pc = "insert_wait"]
    /\ UNCHANGED <<nextSessionId, sessions, channels, hosts, games, events, lists>>

\* An insert that replaces the users of the session by the new user alone.
JoinInsertAlone(t) ==
    LET j == joins[t] IN
    /\ j.pc \in {"insert", "insert_wait"}
    /\ ~SessionReadLocked(j.sid)
    /\ sessions' = [sessions EXCEPT ![j.sid].users = MapInsert(EmptyMap, j.uid, j.name)]
    /\ joins' = [joins EXCEPT ![t].pc = "quorum"]
    /\ UNCHANGED <<nextSessionId, channels, hosts, games, events, lists>>

\* s.write().await.users.insert(uid, ud)
JoinInsert(t) ==
    LET j == joins[t] IN
    /\ j.pc \in {"insert", "insert_wait"}
    /\ ~SessionReadLocked(j.sid)
    /\ sessions' = [sessions EXCEPT ![j.sid].users = MapInsert(@, j.uid, j.name)]
    /\ joins' = [joins EXCEPT ![t].pc = "quorum"]
    /\ UNCHANGED <<nextSessionId, channels, hosts, games, events, lists>>

\* s.read().await.users.len() as u8 == s.read().await.player_count
Quorum(s) == Cardinality(DOMAIN s.users) % U8 = s.player_count

\* The left operand of the test: s.read().await.users.len() as u8.  Its read
\* guard stays out while the right operand is evaluated.
JoinQuorumLen(t) ==
    LET j == joins[t] IN
    /\ j.pc = "quorum"
    /\ ~WriterQueued(j.sid)
    /\ joins' = [joins EXCEPT ![t].pc = "quorum_held"]
    /\ UNCHANGED <<nextSessionId, sessions, channels, hosts, games, events, lists>>

\* The right operand, s.read().await.player_count, and the comparison; both
\* guards are dropped after it.  No writer can have changed users in between.
JoinQuorum(t) ==
    LET j == joins[t] IN
    /\ j.pc = "quorum_held"
    /\ ~WriterQueued(j.sid)
    /\ joins' = [joins EXCEPT ![t] =
                   IF Quorum(sessions[j.sid])
                   THEN [j EXCEPT !.pc = "setup"]
                   ELSE [j EXCEPT !.pc = "done", !.ret = Ok]]
    /\ UNCHANGED <<nextSessionId, sessions, channels, hosts, games, events, lists>>

\* game_setup_impl: users = session.read().await.users.clone(); session_type
GameSetupRead(t) ==
    LET j == joins[t] IN
    /\ j.pc = "setup"
    /\ ~WriterQueued(j.sid)
    /\ \E o \in Orders(DOMAIN sessions[j.sid].users) :
          joins' = [joins EXCEPT ![t] =
                      [j EXCEPT !.pc = "remove",
                                !.users = sessions[j.sid].users,
                                !.typ = sessions[j.sid].session_type,
                                !.order = o, !.idx = 1, !.cb = EmptyMap]]
    /\ UNCHANGED <<nextSessionId, sessions, channels, hosts, games, events, lists>>

\* one iteration of: for (uid, _) in &users {
\*     if let Some(ses) = session.write().await.server_event_senders.remove(uid)
\*         { cb.attach(*uid, ses); } }
GameSetupRemove(t) ==
    LET j == joins[t]
        uid == j.order[j.idx]
        senders == sessions[j.sid].server_event_senders
    IN
    /\ j.pc = "remove"
    /\ j.idx <= Len(j.order)
    /\ ~SessionReadLocked(j.sid)
    /\ sessions' = [sessions EXCEPT ![j.sid].server_event_senders = MapRemove(@, uid)]
    /\ joins' = [joins EXCEPT ![t].idx = j.idx + 1,
                              ![t].cb = IF uid \in DOMAIN senders
                                        THEN MapInsert(j.cb, uid, senders[uid])
                                        ELSE j.cb]
    /\ UNCHANGED <<nextSessionId, channels, hosts, games, events, lists>>

\* let handle = tokio::spawn(async move { game_thread(users, session_type, cb) })
GameSpawn(t) ==
    LET j == joins[t] IN
    /\ j.pc = "remove"
    /\ j.idx > Len(j.order)
    /\ games' = [games EXCEPT ![t] =
                   [NoGame EXCEPT !.state = "running", !.typ = j.typ,
                                  !.users = j.users, !.order = j.order,
                                  !.cb = j.cb]]
    /\ joins' = [joins EXCEPT ![t].pc = "await_handle", ![t].cb = EmptyMap]
    /\ UNCHANGED <<nextSessionId, sessions, channels, hosts, events, lists>>

-----------------------------------------------------------------------------
(* server.rs: server_events, the forwarder task, respond_to_server_event *)

ChannelCapacity == 100

EventRegister(sid, uid) == <<sid, uid>>

Range(m) == {m[k] : k \in DOMAIN m}

\* The inbound channel of conduit c is closed for its receiver once every
\* sender is dropped; the only sender is the one stored in channels.
InboundClosed(c) == c \notin Range(channels)

\* The ServerEventSender of conduit c (outbound sender and inbound receiver) is
\* alive while the handler that made it, a session, or the callback table of
\* game_setup_impl or of a running game thread holds it.
SenderAlive(c) ==
    \/ events[c].pc = "register"
    \/ \E sid \in DOMAIN sessions : c \in Range(sessions[sid].server_event_senders)
    \/ \E t \in DOMAIN joins :
          \/ c \in Range(joins[t].cb)
          \/ games[t].state = "running" /\ c \in Range(games[t].cb)

NewConduit(sid, uid) ==
    [sid |-> sid, uid |-> uid, pc |-> "register", ret |-> Pending,
     out |-> << >>,        \* ctx -> crx: prompts from the coordinator
     stream |-> << >>,     \* tx -> rx: the RPC response stream to the client
     streamOpen |-> TRUE,  \* the client still holds the stream
     inb |-> << >>,        \* rtx -> rrx: responses to the coordinator
     fwd |-> "none",       \* the forwarder task
     reply |-> << >>,      \* client: responses of its handler, not yet sent
     client |-> "listening",  \* client: its response loop runs, or has stopped
     log |-> << >>,        \* every prompt ever enqueued on out
     seen |-> << >>]       \* client: the prompts it read from the stream it holds

\* self.channels.lock().await.insert(er.clone(), rtx): the first step of a
\* server_events task, after it created the three channels.
ServerEventsInsert(sid, uid) ==
    /\ Len(events) < MaxStreams
    /\ events' = Append(events, NewConduit(sid, uid))
    /\ channels' = MapInsert(channels, EventRegister(sid, uid), Len(events) + 1)
    /\ UNCHANGED <<nextSessionId, sessions, hosts, joins, games, lists>>

\* A lookup that takes any user for a member of an existing session.
get_session_only(sid, uid) ==
    IF sid \notin DOMAIN sessions THEN SessionNotFound(sid) ELSE Ok

\* get_session_for_user(sid, uid)
get_session_for_user(sid, uid) ==
    IF sid \notin DOMAIN sessions THEN SessionNotFound(sid)
    ELSE IF uid \in DOMAIN sessions[sid].users THEN Ok
    ELSE UserNotInSession(uid, sid)

\* A registration that stores the conduit in every session the user joined.
ServerEventsRegisterEverywhere(c) ==
    LET e == events[c]
        r == get_session_for_user(e.sid, e.uid)
    IN
    /\ e.pc = "register"
    /\ IF r = Ok
       THEN /\ sessions' = [sid \in DOMAIN sessions |->
                               IF e.uid \in DOMAIN sessions[sid].users
                               THEN [sessions[sid] EXCEPT !.server_event_senders =
                                        MapInsert(@, e.uid, c)]
                               ELSE sessions[sid]]
            /\ events' = [events EXCEPT ![c].pc = "done", ![c].ret = Ok,
                                        ![c].fwd = "running"]
       ELSE /\ sessions' = sessions
            /\ events' = [events EXCEPT ![c].pc = "done", ![c].ret = r,
                                        ![c].streamOpen = FALSE]
    /\ UNCHANGED <<nextSessionId, channels, hosts, joins, games, lists>>

\* register_server_event_sender(sid, uid, conduit), then on success the
\* forwarder is spawned and the stream returned; on failure the handler returns
\* the error and drops its channel ends.
ServerEventsRegister(c) ==
    LET e == events[c]
        r == get_session_for_user(e.sid, e.uid)
    IN
    /\ e.pc = "register"
    /\ e.sid \in DOMAIN sessions => ~WriterQueued(e.sid)
    /\ r = Ok => ~SessionReadLocked(e.sid)
    /\ IF r = Ok
       THEN /\ sessions' = [sessions EXCEPT ![e.sid].server_event_senders =
                               MapInsert(@, e.uid, c)]
            /\ events' = [events EXCEPT ![c].pc = "done", ![c].ret = Ok,
                                        ![c].fwd = "running"]
       ELSE /\ sessions' = sessions
            /\ events' = [events EXCEPT ![c].pc = "done", ![c].ret = r,
                                        ![c].streamOpen = FALSE]
    /\ UNCHANGED <<nextSessionId, channels, hosts, joins, games, lists>>

\* A forwarder that hands a prompt to the client ahead of those that wait.
ForwardNewestFirst(c) ==
    LET e == events[c] IN
    /\ e.fwd = "running"
    /\ IF e.out # << >>
       THEN /\ e.streamOpen => Len(e.stream) < ChannelCapacity
            /\ events' = [events EXCEPT ![c].out = Tail(e.out),
                                        ![c].stream = IF e.streamOpen
                                                      THEN <<Head(e.out)>> \o e.stream
                                                      ELSE e.stream]
       ELSE /\ ~SenderAlive(c)
            /\ events' = [events EXCEPT ![c].fwd = "exited"]
    /\ UNCHANGED <<nextSessionId, sessions, channels, hosts, joins, games, lists>>

\* The forwarder: loop { if let Some(se) = crx.recv().await { tx.send(Ok(s)) }
\* else { break } }.  A send to a stream the client dropped fails and is logged.
Forward(c) ==
    LET e == events[c] IN
    /\ e.fwd = "running"
    /\ IF e.out # << >>
       THEN /\ e.streamOpen => Len(e.stream) < ChannelCapacity
            /\ events' = [events EXCEPT ![c].out = Tail(e.out),
                                        ![c].stream = IF e.streamOpen
                                                      THEN Append(e.stream, Head(e.out))
                                                      ELSE e.stream]
       ELSE /\ ~SenderAlive(c)
            /\ events' = [events EXCEPT ![c].fwd = "exited"]
    /\ UNCHANGED <<nextSessionId, sessions, channels, hosts, joins, games, lists>>

\* The client drops its stream (the ReceiverStream is dropped with it).
StreamClose(c) ==
    LET e == events[c] IN
    /\ e.pc = "done"
    /\ e.streamOpen
    /\ events' = [events EXCEPT ![c].streamOpen = FALSE, ![c].stream = << >>,
                                ![c].seen = << >>]
    /\ UNCHANGED <<nextSessionId, sessions, channels, hosts, joins, games, lists>>

\* A game plays at most MaxRounds rounds: no client votes to play again in
\* the last of them.
MayPlayAgain == \A t \in DOMAIN games : games[t].rounds + 1 < MaxRounds

\* respond_to_server_event: channels.get(&er) ... .send(cr).  Without an entry,
\* or with the receiver dropped, it returns an error and enqueues nothing.
\* Accepted(er) tells which, Responded(er, cr) is events after the call.
Accepted(er) == er \in DOMAIN channels /\ SenderAlive(channels[er])

\* A delivery that reaches every conduit of the session, whoever its user.
RespondedToSession(er, cr) ==
    IF Accepted(er)
    THEN [c \in DOMAIN events |->
             IF events[c].sid = er[1] THEN [events[c] EXCEPT !.inb = Append(@, cr)]
             ELSE events[c]]
    ELSE events

Responded(er, cr) ==
    IF Accepted(er)
    THEN [events EXCEPT ![channels[er]].inb = Append(@, cr)]
    ELSE events

\* A respond_to_server_event call by any caller, with any response for any
\* (sid, uid), whether a prompt is outstanding or not.
RespondToServerEvent(sid, uid, cr) ==
    LET er == EventRegister(sid, uid) IN
    /\ cr = Again(TRUE) => MayPlayAgain
    /\ Accepted(er) => Len(events[channels[er]].inb) < Min(ChannelCapacity, MaxInbound)
    /\ events' = Responded(er, cr)
    /\ UNCHANGED <<nextSessionId, sessions, channels, hosts, joins, games, lists>>

-----------------------------------------------------------------------------
(* game_thread, dice_game, coin_game *)

DiceSides == {4, 6, 8, 12, 20}

MaxDiceCount == 6

UnknownWinner == Res("UnknownWinner", 0, 0, "")

ClientUnreachable(uid) == Res("ClientUnreachable", uid, 0, "")

\* The task panicked: handle.await yields Err(JoinError).
Panicked == Res("JoinError", 0, 0, "")

\* for g in guess { if results.contains(&g) { score = score + 1; } }
DiceScore(results, guess) ==
    Cardinality({i \in DOMAIN guess : guess[i] \in Range(results)})

\* for x in 0..result.len() { if x > results.len() { break; }
\*     if results[x] == result[x] { score = score + 1; } }
\* results[x] is out of bounds at x = results.len(), before the break can act.
CoinPanics(results, guess) == Len(guess) > Len(results)

CoinScore(results, guess) ==
    Cardinality({i \in DOMAIN guess : i <= Len(results) /\ results[i] = guess[i]})

\* A loop that goes on waiting instead of returning.
FinishWaits(g, result) == g

\* A loop that sends the prompt of the user again instead of returning.
FinishRetry(g, result) == [g EXCEPT !.stage = "send"]

\* game_thread returns (or panics): the task ends and drops its callback table.
Finish(g, result) == [g EXCEPT !.state = "finished", !.result = result]

PhaseOp(g) ==
    CASE g.phase = "ping" -> "ping"
      [] g.phase = "guess" -> IF g.typ = "Dice" THEN "roll_dice" ELSE "flip_coin"
      [] g.phase = "again" -> "try_again"
      [] OTHER -> "none"

PhasePrompt(g) ==
    CASE g.phase = "ping" -> PingMsg("Game start")
      [] g.phase = "guess" -> IF g.typ = "Dice" THEN RollDiceMsg(g.sides, g.count)
                              ELSE FlipCoinMsg(g.count)
      [] g.phase = "winner" -> WinnerMsg(g.winner, g.username)
      [] g.phase = "again" -> TryAgainMsg

\* A loop that takes every user for the last of its phase.
LastUserAlways(g) == g.idx >= 1

LastUser(g) == g.idx >= Len(g.order)

\* A loop that draws the round again before it turns to the next user.
NextUserRedraw(g) ==
    [g EXCEPT !.idx = g.idx + 1, !.stage = "send", !.results = << >>, !.flips = << >>]

NextUser(g) == [g EXCEPT !.idx = g.idx + 1, !.stage = "send"]

StartPhase(g, phase) == [g EXCEPT !.phase = phase, !.idx = 1, !.stage = "send"]

\* match winner { Some(w) => Ok(w), None => Err(UnknownWinner) }, then
\* users.get(&winner) for the name of the winner.
AnnounceWinner(g) ==
    IF g.winner = 0 \/ g.winner \notin DOMAIN g.users THEN Finish(g, UnknownWinner)
    ELSE [StartPhase(g, "winner") EXCEPT !.username = g.users[g.winner]]

\* A comparison that keeps the earlier of two equal scores.
ScoredStrict(g, uid, score) ==
    IF score > g.winner_score
    THEN [g EXCEPT !.winner_score = score, !.winner = uid]
    ELSE g

\* if score >= winner_score { winner_score = score; winner = Some(*uid); }
Scored(g, uid, score) ==
    IF score >= g.winner_score
    THEN [g EXCEPT !.winner_score = score, !.winner = uid]
    ELSE g

\* A tally in which one vote to play again is enough.
VoteAny(play_again, again) == play_again \/ again

\* play_again = play_again & cb.route(*uid)?.try_again().await?
Vote(play_again, again) == play_again /\ again

\* The game thread after a request-response call of user uid returned v.
AfterReply(g, uid, v) ==
    IF v.res # Ok THEN Finish(g, v.res)
    ELSE CASE g.phase = "ping" ->
                IF LastUser(g) THEN StartPhase(g, "round") ELSE NextUser(g)
           [] g.phase = "guess" ->
                IF g.typ = "Coin" /\ CoinPanics(g.flips, v.coins) THEN Finish(g, Panicked)
                ELSE LET score == IF g.typ = "Dice" THEN DiceScore(g.results, v.dice)
                                  ELSE CoinScore(g.flips, v.coins)
                         h == [Scored(g, uid, score) EXCEPT !.scores = Append(@, score)]
                     IN IF LastUser(g) THEN AnnounceWinner(h) ELSE NextUser(h)
           [] g.phase = "again" ->
                LET h == [g EXCEPT !.play_again = Vote(g.play_again, v.again),
                                   !.votes = Append(@, v.again)]
                IN
                IF ~LastUser(g) THEN NextUser(h)
                ELSE IF ~h.play_again THEN Finish(h, Ok)
                ELSE [StartPhase(h, "ping") EXCEPT !.rounds = g.rounds + 1]

\* cb.route(uid)?.<prompt>: tx.send(prompt).await, the first half of a conduit
\* operation; without a conduit for uid the loop ends with ClientUnreachable.
GameSend(t) ==
    LET g == games[t]
        uid == g.order[g.idx]
    IN
    /\ g.state = "running"
    /\ g.phase \in {"ping", "guess", "winner", "again"}
    /\ g.stage = "send"
    /\ IF uid \notin DOMAIN g.cb
       THEN /\ games' = [games EXCEPT ![t] = Finish(g, ClientUnreachable(uid))]
            /\ events' = events
       ELSE /\ Len(events[g.cb[uid]].out) < ChannelCapacity
            /\ events' = [events EXCEPT ![g.cb[uid]].out = Append(@, PhasePrompt(g)),
                                        ![g.cb[uid]].log = Append(@, PhasePrompt(g))]
            /\ games' = [games EXCEPT ![t] =
                           IF g.phase # "winner" THEN [g EXCEPT !.stage = "poll"]
                           ELSE IF LastUser(g)
                                THEN [StartPhase(g, "again") EXCEPT !.play_again = TRUE,
                                                                    !.votes = << >>]
                                ELSE NextUser(g)]
    /\ UNCHANGED <<nextSessionId, sessions, channels, hosts, joins, lists>>

\* self.rx.lock().await.recv().await and the match on its value: the second
\* half of a request-response operation.
GamePoll(t) ==
    LET g == games[t]
        uid == g.order[g.idx]
        c == g.cb[uid]
        q == events[c].inb
        deq == IF q # << >> THEN Head(q) ELSE NoResponse
        v == Reply(PhaseOp(g), deq)
        call == [op |-> PhaseOp(g), conduit |-> c, deq |-> deq, ret |-> v,
                 closed |-> InboundClosed(c), queued |-> Len(q)]
    IN
    /\ g.state = "running"
    /\ g.stage = "poll"
    /\ q # << >> \/ InboundClosed(c)
    /\ events' = [events EXCEPT ![c].inb = IF q # << >> THEN Tail(q) ELSE q]
    /\ games' = [games EXCEPT ![t] = [AfterReply(g, uid, v) EXCEPT !.last = call]]
    /\ UNCHANGED <<nextSessionId, sessions, channels, hosts, joins, lists>>

\* dice_game / coin_game up to the first prompt: the random draws of the round.
GameRound(t) ==
    LET g == games[t]
        fresh == [g EXCEPT !.winner = 0, !.winner_score = 0, !.scores = << >>]
    IN
    /\ g.state = "running"
    /\ g.phase = "round"
    /\ \E count \in 1..Min(MaxDiceCount, MaxCount) :
          IF g.typ = "Dice"
          THEN \E sides \in DiceSides :
               \E results \in [1..count -> 1..Min(sides, MaxFace)] :
                  games' = [games EXCEPT ![t] =
                      [StartPhase(fresh, "guess") EXCEPT !.sides = sides,
                                                         !.count = count,
                                                         !.results = results]]
          ELSE \E flips \in [1..count -> Coins] :
                  games' = [games EXCEPT ![t] =
                      [StartPhase(fresh, "guess") EXCEPT !.count = count,
                                                         !.flips = flips]]
    /\ UNCHANGED <<nextSessionId, sessions, channels, hosts, joins, events, lists>>

-----------------------------------------------------------------------------
(* game_setup_impl after the spawn, report_error *)

\* match handle.await { Ok(_) => info!("Game complete"),
\*                      Err(e) => report_error(session, e).await }; Ok(())
\* Ok(_) matches every value game_thread returned, its errors included; Err is
\* the JoinError of a panicked task.
JoinAwaitHandle(t) ==
    LET j == joins[t]
        g == games[t]
    IN
    /\ j.pc = "await_handle"
    /\ g.state = "finished"
    /\ joins' = [joins EXCEPT ![t] =
                   IF g.result = Panicked THEN [j EXCEPT !.pc = "report"]
                   ELSE [j EXCEPT !.pc = "done", !.ret = Ok]]
    /\ UNCHANGED <<nextSessionId, sessions, channels, hosts, games, events, lists>>

\* report_error: let users = session.read().await.users.clone()
ReportErrorRead(t) ==
    LET j == joins[t] IN
    /\ j.pc = "report"
    /\ ~WriterQueued(j.sid)
    /\ \E o \in Orders(DOMAIN sessions[j.sid].users) :
          joins' = [joins EXCEPT ![t] =
                      [j EXCEPT !.pc = "report_send",
                                !.users = sessions[j.sid].users,
                                !.order = o, !.idx = 1]]
    /\ UNCHANGED <<nextSessionId, sessions, channels, hosts, games, events, lists>>

\* one iteration of: match session.read().await.server_event_senders.get(&uid)
\* The read guard is a temporary of the scrutinee: it lives to the end of the
\* match.
ReportErrorLock(t) ==
    LET j == joins[t] IN
    /\ j.pc = "report_send"
    /\ j.idx <= Len(j.order)
    /\ ~WriterQueued(j.sid)
    /\ joins' = [joins EXCEPT ![t].pc = "report_locked"]
    /\ UNCHANGED <<nextSessionId, sessions, channels, hosts, games, events, lists>>

\* the arms of the match, under the guard:
\*     Some(ses) => ses.error(&format!("{}", ew)).await, None => error!(..) }
ReportErrorSend(t) ==
    LET j == joins[t]
        uid == j.order[j.idx]
        senders == sessions[j.sid].server_event_senders
    IN
    /\ j.pc = "report_locked"
    /\ IF uid \in DOMAIN senders
       THEN /\ Len(events[senders[uid]].out) < ChannelCapacity
            /\ events' = [events EXCEPT
                            ![senders[uid]].out = Append(@, ServerErrorMsg(games[t].result)),
                            ![senders[uid]].log = Append(@, ServerErrorMsg(games[t].result))]
       ELSE events' = events
    /\ joins' = [joins EXCEPT ![t].idx = j.idx + 1, ![t].pc = "report_send"]
    /\ UNCHANGED <<nextSessionId, sessions, channels, hosts, games, lists>>

\* report_error returned: game_setup_impl, game_setup and join_session return Ok.
JoinReturn(t) ==
    LET j == joins[t] IN
    /\ j.pc = "report_send"
    /\ j.idx > Len(j.order)
    /\ joins' = [joins EXCEPT ![t].pc = "done", ![t].ret = Ok]
    /\ UNCHANGED <<nextSessionId, sessions, channels, hosts, games, events, lists>>

-----------------------------------------------------------------------------
(* client.rs: server_events_listen and server_listener_handler, with any   *)
(* handler that implements ServerEvent                                     *)

\* A guess names the faces a die of the model can show and one it cannot.
DiceGuesses == SeqsUpTo(1..(MaxFace + 1), MaxGuess)

CoinGuesses == SeqsUpTo(Coins, MaxGuess)

Responses ==
    {Pong("pong"), Again(TRUE), Again(FALSE), ClientErrorMsg("boom")}
    \cup {DiceGuess(v) : v \in DiceGuesses}
    \cup {CoinGuess(v) : v \in CoinGuesses}

\* Winner and Error are notifications: a handler that succeeds on them
\* returns Ok(None) and the client sends no response.
Silent(p) == p.tag \in {"Winner", "Error"}

\* server_listener_handler: the responses the handler's result can make for a
\* request-response prompt; a handler error becomes ClientError.
Answers(p) ==
    CASE p.tag = "Ping" -> {Pong("pong"), ClientErrorMsg("boom")}
      [] p.tag = "RollDice" -> {DiceGuess(v) : v \in DiceGuesses} \cup {ClientErrorMsg("boom")}
      [] p.tag = "FlipCoin" -> {CoinGuess(v) : v \in CoinGuesses} \cup {ClientErrorMsg("boom")}
      [] p.tag = "TryAgain" -> {Again(b) : b \in {x \in BOOLEAN : x => MayPlayAgain}}
                               \cup {ClientErrorMsg("boom")}
      [] OTHER -> {}

\* The client reads the next prompt of its stream and runs its handler on it;
\* on a notification the handler succeeds.
ClientRecv(c) ==
    LET e == events[c] IN
    /\ e.streamOpen
    /\ e.stream # << >>
    /\ \/ /\ e.client = "listening"
          /\ \E cr \in Answers(Head(e.stream)) :
                events' = [events EXCEPT ![c].stream = Tail(e.stream),
                                         ![c].seen = Append(e.seen, Head(e.stream)),
                                         ![c].reply = Append(e.reply, cr)]
       \/ /\ e.client = "stopped" \/ Silent(Head(e.stream))
          /\ events' = [events EXCEPT ![c].stream = Tail(e.stream),
                                      ![c].seen = Append(e.seen, Head(e.stream))]
    /\ UNCHANGED <<nextSessionId, sessions, channels, hosts, joins, games, lists>>

\* The client reads a notification and its handler fails: the listener makes
\* a ClientError response of the failure, as it does for any prompt.
ClientNotifyFails(c) ==
    LET e == events[c] IN
    /\ e.streamOpen
    /\ e.stream # << >>
    /\ e.client = "listening"
    /\ Silent(Head(e.stream))
    /\ events' = [events EXCEPT ![c].stream = Tail(e.stream),
                                ![c].seen = Append(e.seen, Head(e.stream)),
                                ![c].reply = Append(e.reply, ClientErrorMsg("boom"))]
    /\ UNCHANGED <<nextSessionId, sessions, channels, hosts, joins, games, lists>>

\* client_clone.respond_to_server_event(cer) with the EventRegister of the
\* stream; if the call fails the response loop breaks.
ClientRespond(c) ==
    LET e == events[c]
        er == EventRegister(e.sid, e.uid)
    IN
    /\ e.client = "listening"
    /\ e.reply # << >>
    /\ Accepted(er) => Len(events[channels[er]].inb) < ChannelCapacity
    /\ events' = [Responded(er, Head(e.reply)) EXCEPT
                    ![c].reply = IF Accepted(er) THEN Tail(e.reply) ELSE << >>,
                    ![c].client = IF Accepted(er) THEN "listening" ELSE "stopped"]
    /\ UNCHANGED <<nextSessionId, sessions, channels, hosts, joins, games, lists>>

-----------------------------------------------------------------------------
Init ==
    /\ nextSessionId = FirstSessionId
    /\ sessions = EmptyMap
    /\ channels = EmptyMap
    /\ hosts = << >>
    /\ joins = << >>
    /\ games = << >>
    /\ events = << >>
    /\ lists = << >>

Next ==
    \/ \E typ \in SessionTypes, pc \in PlayerCounts : HostFetchAdd(typ, pc)
    \/ \E h \in DOMAIN hosts : HostInsert(h)
    \/ \E sid \in SessionIds, uid \in Users, name \in Range(UserNames) :
          JoinGetSession(sid, uid, name)
    \/ \E t \in DOMAIN joins : JoinCheck(t)
    \/ \E t \in DOMAIN joins : JoinWriteWait(t)
    \/ \E t \in DOMAIN joins : JoinInsert(t)
    \/ \E t \in DOMAIN joins : JoinQuorumLen(t)
    \/ \E t \in DOMAIN joins : JoinQuorum(t)
    \/ \E t \in DOMAIN joins : GameSetupRead(t)
    \/ \E t \in DOMAIN joins : GameSetupRemove(t)
    \/ \E t \in DOMAIN joins : GameSpawn(t)
    \/ \E t \in DOMAIN joins : GameSend(t)
    \/ \E t \in DOMAIN joins : GamePoll(t)
    \/ \E t \in DOMAIN joins : GameRound(t)
    \/ \E t \in DOMAIN joins : JoinAwaitHandle(t)
    \/ \E t \in DOMAIN joins : ReportErrorRead(t)
    \/ \E t \in DOMAIN joins : ReportErrorLock(t)
    \/ \E t \in DOMAIN joins : ReportErrorSend(t)
    \/ \E t \in DOMAIN joins : JoinReturn(t)
    \/ \E sid \in SessionIds, uid \in Users : ServerEventsInsert(sid, uid)
    \/ \E c \in DOMAIN events : ServerEventsRegister(c)
    \/ \E c \in DOMAIN events : Forward(c)
    \/ \E c \in DOMAIN events : ClientRecv(c)
    \/ \E c \in DOMAIN events : ClientNotifyFails(c)
    \/ \E c \in DOMAIN events : ClientRespond(c)
    \/ \E c \in DOMAIN events : StreamClose(c)
    \/ \E sid \in SessionIds, uid \in Users, cr \in Responses :
          RespondToServerEvent(sid, uid, cr)
    \/ ListSessionsLock
    \/ \E l \in DOMAIN lists : ListSessionsRead(l)
    \/ \E l \in DOMAIN lists : ListSessionsReturn(l)

Spec == Init /\ [][Next]_vars

-----------------------------------------------------------------------------
(* host_session alone: the only code that touches NEXT_SESSION_ID *)

NextHost ==
    \/ \E typ \in SessionTypes, pc \in PlayerCounts : HostFetchAdd(typ, pc)
    \/ \E h \in DOMAIN hosts : HostInsert(h)

SpecHost == Init /\ [][NextHost]_vars

-----------------------------------------------------------------------------
(* The registry: host_session, join_session and list_sessions calls, with  *)
(* no client opening an event stream.  A join that completes a quorum      *)
(* stays at the start of the game set-up, which reads no registry entry    *)
(* and writes neither users nor types.                                     *)

NextList ==
    \/ \E typ \in SessionTypes, pc \in PlayerCounts : HostFetchAdd(typ, pc)
    \/ \E h \in DOMAIN hosts : HostInsert(h)
    \/ \E sid \in SessionIds, uid \in Users, name \in Range(UserNames) :
          JoinGetSession(sid, uid, name)
    \/ \E t \in DOMAIN joins : JoinCheck(t)
    \/ \E t \in DOMAIN joins : JoinWriteWait(t)
    \/ \E t \in DOMAIN joins : JoinInsert(t)
    \/ \E t \in DOMAIN joins : JoinQuorumLen(t)
    \/ \E t \in DOMAIN joins : JoinQuorum(t)
    \/ ListSessionsLock
    \/ \E l \in DOMAIN lists : ListSessionsRead(l)
    \/ \E l \in DOMAIN lists : ListSessionsReturn(l)

SpecList == Init /\ [][NextList]_vars

-----------------------------------------------------------------------------
(* Admission: join_session tasks on a registry that host_session calls     *)
(* have filled, with no client opening an event stream, so that every game *)
(* loop started ends at its first prompt with ClientUnreachable.           *)

\* The state after n host_session calls ran one after the other.
Hosted(n) ==
    /\ nextSessionId = FirstSessionId + n
    /\ \E typ \in [1..n -> SessionTypes], pc \in [1..n -> PlayerCounts] :
          /\ sessions = [sid \in 1..n |-> NewSessionState(typ[sid], pc[sid])]
          /\ hosts = [h \in 1..n |-> [pc |-> "done", typ |-> typ[h],
                                      player_count |-> pc[h], sid |-> h,
                                      before |-> 1..(h - 1),
                                      data |-> SessionData(h, typ[h], {})]]

InitJoin ==
    /\ \E n \in 1..MaxSessions : Hosted(n)
    /\ channels = EmptyMap
    /\ joins = << >>
    /\ games = << >>
    /\ events = << >>
    /\ lists = << >>

NextJoin ==
    \/ \E sid \in SessionIds, uid \in Users, name \in Range(UserNames) :
          JoinGetSession(sid, uid, name)
    \/ \E t \in DOMAIN joins : JoinCheck(t)
    \/ \E t \in DOMAIN joins : JoinWriteWait(t)
    \/ \E t \in DOMAIN joins : JoinInsert(t)
    \/ \E t \in DOMAIN joins : JoinQuorumLen(t)
    \/ \E t \in DOMAIN joins : JoinQuorum(t)
    \/ \E t \in DOMAIN joins : GameSetupRead(t)
    \/ \E t \in DOMAIN joins : GameSetupRemove(t)
    \/ \E t \in DOMAIN joins : GameSpawn(t)
    \/ \E t \in DOMAIN joins : GameSend(t)
    \/ \E t \in DOMAIN joins : JoinAwaitHandle(t)

SpecJoin == InitJoin /\ [][NextJoin]_vars

-----------------------------------------------------------------------------
(* Registration: join_session and server_events calls on a registry of     *)
(* dice sessions that host_session calls have filled, up to the start of   *)
(* the game loops.                                                         *)

InitRegister ==
    /\ InitJoin
    /\ \A sid \in DOMAIN sessions : sessions[sid].session_type = "Dice"

NextRegister ==
    \/ \E sid \in SessionIds, uid \in Users, name \in Range(UserNames) :
          JoinGetSession(sid, uid, name)
    \/ \E t \in DOMAIN joins : JoinCheck(t)
    \/ \E t \in DOMAIN joins : JoinWriteWait(t)
    \/ \E t \in DOMAIN joins : JoinInsert(t)
    \/ \E t \in DOMAIN joins : JoinQuorumLen(t)
    \/ \E t \in DOMAIN joins : JoinQuorum(t)
    \/ \E t \in DOMAIN joins : GameSetupRead(t)
    \/ \E t \in DOMAIN joins : GameSetupRemove(t)
    \/ \E t \in DOMAIN joins : GameSpawn(t)
    \/ \E sid \in SessionIds, uid \in Users : ServerEventsInsert(sid, uid)
    \/ \E c \in DOMAIN events : ServerEventsRegister(c)

SpecRegister == InitRegister /\ [][NextRegister]_vars

-----------------------------------------------------------------------------
(* The game of one session: the state in which the join that completed the *)
(* quorum of session 1 has just spawned the game loop, after the n users   *)
(* joined one after the other and those of K opened their event stream in  *)
(* time for game_setup_impl to move their conduit into the callback table. *)
(* The handlers of the clients succeed on every notification.              *)

ConduitOf(K, u) == Cardinality({k \in K : k <= u})

Registered(sid, uid) ==
    [NewConduit(sid, uid) EXCEPT !.pc = "done", !.ret = Ok, !.fwd = "running"]

NthOf(K, c) == CHOOSE u \in K : ConduitOf(K, u) = c

GameSpawned(typ, n, K, o) ==
    LET users == [u \in 1..n |-> UserNames[u]]
        cb == [u \in K |-> ConduitOf(K, u)]
    IN
    /\ nextSessionId = FirstSessionId + 1
    /\ hosts = <<[pc |-> "done", typ |-> typ, player_count |-> n, sid |-> 1,
                  before |-> {}, data |-> SessionData(1, typ, {})]>>
    /\ sessions = [sid \in {1} |->
                     [NewSessionState(typ, n) EXCEPT !.users = users]]
    /\ joins = [t \in 1..n |->
                  IF t < n THEN NewJoin(1, t, UserNames[t], "done", Ok)
                  ELSE [NewJoin(1, t, UserNames[t], "await_handle", Pending)
                          EXCEPT !.typ = typ, !.users = users, !.order = o,
                                 !.idx = n + 1]]
    /\ games = [t \in 1..n |->
                  IF t < n THEN NoGame
                  ELSE [NoGame EXCEPT !.state = "running", !.typ = typ,
                                      !.users = users, !.order = o, !.cb = cb]]
    /\ events = [c \in 1..Cardinality(K) |-> Registered(1, NthOf(K, c))]
    /\ channels = [er \in {EventRegister(1, u) : u \in K} |-> ConduitOf(K, er[2])]
    /\ lists = << >>

InitGame ==
    \E typ \in SessionTypes, n \in 1..Min(MaxPlayers, MaxUsers) :
       \E K \in SUBSET (1..n), o \in Orders(1..n) : GameSpawned(typ, n, K, o)

NextGame ==
    \/ \E t \in DOMAIN joins : GameSend(t)
    \/ \E t \in DOMAIN joins : GamePoll(t)
    \/ \E t \in DOMAIN joins : GameRound(t)
    \/ \E t \in DOMAIN joins : JoinAwaitHandle(t)
    \/ \E t \in DOMAIN joins : ReportErrorRead(t)
    \/ \E t \in DOMAIN joins : ReportErrorLock(t)
    \/ \E t \in DOMAIN joins : ReportErrorSend(t)
    \/ \E t \in DOMAIN joins : JoinReturn(t)
    \/ \E sid \in SessionIds, uid \in Users : ServerEventsInsert(sid, uid)
    \/ \E c \in DOMAIN events : ServerEventsRegister(c)
    \/ \E c \in DOMAIN events : Forward(c)
    \/ \E c \in DOMAIN events : ClientRecv(c)
    \/ \E c \in DOMAIN events : ClientRespond(c)
    \/ \E c \in DOMAIN events : StreamClose(c)

SpecGame == InitGame /\ [][NextGame]_vars

\* The tokio runtime runs every task that can take a step: each step of the
\* game thread, of a handler and of a forwarder is taken if it stays enabled.
\* Clients are under no obligation.
ServerFairness ==
    /\ WF_vars(\E t \in DOMAIN joins : GameSend(t))
    /\ WF_vars(\E t \in DOMAIN joins : GamePoll(t))
    /\ WF_vars(\E t \in DOMAIN joins : GameRound(t))
    /\ WF_vars(\E t \in DOMAIN joins : JoinAwaitHandle(t))
    /\ WF_vars(\E t \in DOMAIN joins : ReportErrorRead(t))
    /\ WF_vars(\E t \in DOMAIN joins : ReportErrorLock(t))
    /\ WF_vars(\E t \in DOMAIN joins : ReportErrorSend(t))
    /\ WF_vars(\E t \in DOMAIN joins : JoinReturn(t))
    /\ WF_vars(\E c \in DOMAIN events : ServerEventsRegister(c))
    /\ WF_vars(\E c \in DOMAIN events : Forward(c))

FairSpecGame == InitGame /\ [][NextGame]_vars /\ ServerFairness

-----------------------------------------------------------------------------
(* The conduit operations of a game under any responder: the game loop     *)
(* with respond_to_server_event called by anyone, at any time, with any    *)
(* response, and with event streams opened again for a registered pair.    *)
(* Calls for a pair the routing table does not hold change nothing and are *)
(* left out.  No prompt is read: forwarder and clients take no step.       *)

NextConduit ==
    \/ \E t \in DOMAIN joins : GameSend(t)
    \/ \E t \in DOMAIN joins : GamePoll(t)
    \/ \E t \in DOMAIN joins : GameRound(t)
    \/ \E er \in DOMAIN channels : ServerEventsInsert(er[1], er[2])
    \/ \E c \in DOMAIN events : ServerEventsRegister(c)
    \/ \E er \in DOMAIN channels, cr \in Responses :
          RespondToServerEvent(er[1], er[2], cr)

\* A session of one player whose conduit is in the callback table.
InitConduit == \E typ \in SessionTypes : GameSpawned(typ, 1, {1}, <<1>>)

SpecConduit == InitConduit /\ [][NextConduit]_vars

-----------------------------------------------------------------------------
(* Properties of host_session, checked under SpecHost *)

DoneHosts == {h \in DOMAIN hosts : hosts[h].pc = "done"}

\* C1: for any interleaving of concurrent host_session calls the SessionIDs
\* returned are pairwise distinct, the first one allocated is 1, and each call
\* returns a value strictly greater than every SessionID returned by a call
\* that completed before it started.
C1_UniqueIncreasingIds ==
    /\ \A h, k \in DoneHosts : h # k => hosts[h].sid # hosts[k].sid
    /\ hosts # << >> => hosts[1].sid = 1
    /\ \A h \in DoneHosts : \A s \in hosts[h].before : hosts[h].sid > s

\* Two calls overlapped (the second allocated before the first returned) and
\* both have returned.
C1_Witness ==
    /\ Len(hosts) = 2
    /\ DoneHosts = {1, 2}
    /\ hosts[2].before = {}

-----------------------------------------------------------------------------
(* Properties of admission, checked under SpecJoin *)

\* The join_session calls for (sid, uid) that have returned ret.
Returned(sid, uid, ret) ==
    {t \in DOMAIN joins : /\ joins[t].sid = sid
                          /\ joins[t].uid = uid
                          /\ joins[t].pc = "done"
                          /\ joins[t].ret = ret}

\* C2: for any (sid, uid) and any interleaving of join_session calls, at most
\* one join_session(sid, uid, _) has returned Ok, and the user's stored
\* UserData is the one written by the call that returned Ok.
C2_OneJoinSucceeds ==
    \A sid \in DOMAIN sessions, uid \in Users :
       /\ Cardinality(Returned(sid, uid, Ok)) <= 1
       /\ \A t \in Returned(sid, uid, Ok) :
             /\ uid \in DOMAIN sessions[sid].users
             /\ sessions[sid].users[uid] = joins[t].name

\* The join tasks of session sid that started a game loop.
Spawners(sid) ==
    {t \in DOMAIN joins : joins[t].sid = sid /\ games[t].state # "none"}

\* C3: for every session the game loop is started at most once, and only by a
\* join that inserted its user.
C3_GameStartedOnce ==
    \A sid \in DOMAIN sessions :
       /\ Cardinality(Spawners(sid)) <= 1
       /\ \A t \in Spawners(sid) : joins[t].uid \in DOMAIN sessions[sid].users

\* C4: in every reachable state, every session holds at most player_count
\* users.
C4_UsersAtMostPlayerCount ==
    \A sid \in DOMAIN sessions :
       Cardinality(DOMAIN sessions[sid].users) <= sessions[sid].player_count

-----------------------------------------------------------------------------
(* Properties of the game of one session, checked under SpecGame and        *)
(* FairSpecGame                                                             *)

\* C5: the join_session call that completed the quorum can return as soon as
\* the game loop task is started, whatever the state of the game loop: its
\* return waits for no client response, no round and no end of the game.
C5_JoinReturnsAfterSpawn ==
    \A t \in DOMAIN joins :
       joins[t].pc = "await_handle" => ENABLED JoinAwaitHandle(t)

\* The Error prompts conduit c was ever sent.
ErrorPrompts(c) == {i \in DOMAIN events[c].log : events[c].log[i].tag = "Error"}

\* C6: when the game loop of a session has ended with an error and the task
\* of the session has ended, an Error prompt carrying that error was enqueued
\* on the outbound queue of every user that had a conduit in the game.
C6_ErrorBroadcast ==
    \A t \in DOMAIN joins :
       (/\ games[t].state = "finished"
        /\ games[t].result # Ok
        /\ joins[t].pc = "done")
       => \A uid \in DOMAIN games[t].cb :
             \E i \in ErrorPrompts(games[t].cb[uid]) :
                events[games[t].cb[uid]].log[i] = ServerErrorMsg(games[t].result)

\* The conduit on which game thread t awaits a response.
Awaited(t) == games[t].cb[games[t].order[games[t].idx]]

\* Game thread t awaits the response of a user whose stream is closed, with
\* no response of that user queued or about to be sent.
AwaitsGone(t) ==
    /\ t \in DOMAIN games
    /\ games[t].state = "running"
    /\ games[t].stage = "poll"
    /\ ~events[Awaited(t)].streamOpen
    /\ events[Awaited(t)].inb = << >>
    /\ events[Awaited(t)].reply = << >>

\* The last call of game thread t returned ClientDisconnected.
ReturnedDisconnected(t) ==
    /\ t \in DOMAIN games
    /\ games[t].last.ret.res = ClientDisconnected

\* C7: if the stream of a client has closed while the game loop awaits the
\* response of that user, then eventually, under fair scheduling of the
\* server, the pending call returns ClientDisconnected.
C7_CloseLeadsToDisconnected ==
    \A t \in 1..MaxJoins :
       AwaitsGone(t) ~> ReturnedDisconnected(t)

-----------------------------------------------------------------------------
(* Properties of the conduit operations, checked under SpecConduit *)

\* The request-response calls completed last, one per game thread.
LastCalls == {games[t].last : t \in {x \in DOMAIN games : games[x].last.op # "none"}}

Expected(op) ==
    CASE op = "ping" -> "Pong"
      [] op = "roll_dice" -> "DiceGuess"
      [] op = "flip_coin" -> "CoinGuess"
      [] op = "try_again" -> "Again"

Variants == {"Pong", "DiceGuess", "CoinGuess", "Again"}

\* C8: for ping, roll_dice, flip_coin and try_again, if the value dequeued
\* after the prompt has the expected variant the call returns exactly the
\* payload of that value; if it has another non-error variant the call fails
\* with InvalidClientResponse.
C8_VariantDecidesResult ==
    \A l \in LastCalls :
       /\ l.deq.tag = Expected(l.op) =>
             l.ret = Value(Ok, l.deq.text, l.deq.dice, l.deq.coins, l.deq.again)
       /\ l.deq.tag \in Variants \ {Expected(l.op)} =>
             l.ret = Fail(InvalidClientResponse)

\* A roll_dice call dequeued a CoinGuess.
C8_Witness ==
    \E l \in LastCalls :
       l.op = "roll_dice" /\ l.deq.tag = "CoinGuess" /\ l.deq.coins # << >>

\* C9: for ping, roll_dice, flip_coin and try_again, if the value dequeued is
\* ClientError(e) the call fails with ClientError(e), with the same text e,
\* whatever variant was expected.
C9_ClientErrorSurfaces ==
    \A l \in LastCalls :
       l.deq.tag = "ClientError" => l.ret = Fail(ClientError(l.deq.text))

\* A try_again call dequeued a client error with a text.
C9_Witness ==
    \E l \in LastCalls :
       l.op = "try_again" /\ l.deq.tag = "ClientError" /\ l.deq.text # ""

\* C10: a request-response call that awaits a response on a conduit whose
\* inbound queue is empty and closed fails with ClientDisconnected; responses
\* queued before the close are dequeued and returned first.
C10_ClosedQueueDisconnects ==
    \A l \in LastCalls :
       /\ l.closed /\ l.queued = 0 => l.ret = Fail(ClientDisconnected)
       /\ l.queued > 0 => l.deq.tag # "None" /\ l.ret.res # ClientDisconnected

\* A call found the inbound queue of its conduit empty and closed.
C10_Witness ==
    \E l \in LastCalls :
       l.closed /\ l.queued = 0 /\ l.ret.res = ClientDisconnected

-----------------------------------------------------------------------------
(* Properties of a round, checked under SpecGame *)

\* The truth vector of the round of game g.
Truth(g) == IF g.typ = "Dice" THEN g.results ELSE g.flips

\* The users of game g that were sent the guess prompt of the round.
Prompted(g) ==
    {g.order[i] : i \in {k \in DOMAIN g.order :
                            k < g.idx \/ (k = g.idx /\ g.stage = "poll")}}

GuessPrompt(g) ==
    IF g.typ = "Dice" THEN RollDiceMsg(g.sides, g.count) ELSE FlipCoinMsg(g.count)

\* While users are asked for their guess the round is drawn in full, and the
\* last prompt of every user asked so far carries its sides and count.
RoundDrawn ==
    \A t \in DOMAIN games :
       games[t].state = "running" /\ games[t].phase = "guess" =>
          /\ games[t].count >= 1
          /\ Len(Truth(games[t])) = games[t].count
          /\ games[t].typ = "Dice" => games[t].sides \in DiceSides
          /\ \A uid \in Prompted(games[t]) :
                LET log == events[games[t].cb[uid]].log IN
                log # << >> /\ log[Len(log)] = GuessPrompt(games[t])

\* From one user's guess to the next the round stays as drawn.
RoundKept ==
    \A t \in DOMAIN games :
       games[t].phase = "guess" /\ games'[t].phase = "guess" =>
          /\ Truth(games'[t]) = Truth(games[t])
          /\ games'[t].sides = games[t].sides
          /\ games'[t].count = games[t].count

\* C11: in every round the truth vector, sides and count are drawn in full
\* before the first roll_dice or flip_coin prompt and are not modified between
\* the first and the last prompt of the round: every user is sent the same
\* sides and count and is scored against the same truth vector.
C11_TruthFixedInRound == []RoundDrawn /\ [][RoundKept]_vars

\* The first user of a round is scored and the second has been prompted.
C11_Witness ==
    \E t \in DOMAIN games :
       /\ games[t].state = "running"
       /\ games[t].phase = "guess"
       /\ games[t].idx = 2
       /\ games[t].stage = "poll"
       /\ Len(games[t].scores) = 1

MaxOf(S) == CHOOSE x \in S : \A y \in S : y <= x

\* The last position of the greatest score of a round.
LastBest(scores) ==
    MaxOf({i \in DOMAIN scores : scores[i] = MaxOf(Range(scores))})

\* C12: in a round over a non-empty user set the winner is the last user in
\* polling order whose score equals the maximum score of the round: of two
\* users that tie the one polled later wins, and when every score is 0 the
\* last user polled wins.
C12_LastBestWins ==
    \A t \in DOMAIN games :
       LET g == games[t] IN
       g.order # << >> /\ Len(g.scores) = Len(g.order) =>
          /\ g.winner = g.order[LastBest(g.scores)]
          /\ g.winner_score = MaxOf(Range(g.scores))

\* Two users tied on a score above 0 and the winner is being announced.
C12_Witness ==
    \E t \in DOMAIN games :
       /\ games[t].phase = "winner"
       /\ Len(games[t].scores) = 2
       /\ games[t].scores[1] = games[t].scores[2]
       /\ games[t].scores[1] > 0
       /\ games[t].winner = games[t].order[2]

\* The score of the user game g polled last.
LastScore(g) == g.scores[Len(g.scores)]

\* C13: in a coin round, for every guess vector a client returns (shorter
\* than, as long as, or longer than the truth vector) the score of the user is
\* the number of positions i below min(len(guess), len(truth)) with
\* guess[i] = truth[i], and computing it does not abort the game task.
C13_CoinScoreTotal ==
    \A t \in DOMAIN games :
       LET g == games[t]
           guess == g.last.ret.coins
       IN
       g.last.op = "flip_coin" /\ g.last.ret.res = Ok =>
          /\ g.result # Panicked
          /\ g.scores # << >>
          /\ LastScore(g) =
                Cardinality({i \in 1..Min(Len(guess), Len(g.flips)) :
                               guess[i] = g.flips[i]})

\* C14: in a dice round the score of a user is the number of values of the
\* guess that appear in the truth vector, each value counted once however
\* often the guess repeats it.
C14_DiceScoreAsSet ==
    \A t \in DOMAIN games :
       LET g == games[t]
           guess == g.last.ret.dice
       IN
       g.last.op = "roll_dice" /\ g.last.ret.res = Ok =>
          /\ g.scores # << >>
          /\ LastScore(g) =
                Cardinality({v \in Range(guess) : v \in Range(g.results)})

\* The step in which game t received the vote of its last user.
VotesIn(t) ==
    /\ games'[t].votes # games[t].votes
    /\ Len(games'[t].votes) = Len(games[t].order)

\* What the game loop does once the votes of a round are in, and only then.
RoundsFollowVotes ==
    \A t \in DOMAIN games :
       /\ VotesIn(t) =>
             IF \A i \in DOMAIN games'[t].votes : games'[t].votes[i]
             THEN /\ games'[t].rounds = games[t].rounds + 1
                  /\ games'[t].state = "running"
                  /\ games'[t].phase = "ping"
             ELSE /\ games'[t].rounds = games[t].rounds
                  /\ games'[t].state = "finished"
                  /\ games'[t].result = Ok
       /\ games'[t].rounds # games[t].rounds => VotesIn(t)
       /\ games[t].state = "finished" /\ games[t].result = Ok =>
             \A uid \in DOMAIN games[t].cb :
                events'[games[t].cb[uid]].log = events[games[t].cb[uid]].log

\* C15: after the winner of a round is announced another round is played if
\* and only if try_again returned true for every user in that round; if a
\* user returned false the game loop exits with success and sends no further
\* prompt in the session.
C15_AnotherRoundIffAllAgree == [][RoundsFollowVotes]_vars

\* Two users both voted to play again and the second round has begun.
C15_Witness ==
    \E t \in DOMAIN games :
       /\ games[t].rounds = 1
       /\ games[t].votes = <<TRUE, TRUE>>
       /\ games[t].phase = "ping"

-----------------------------------------------------------------------------
(* Properties of the lookups, checked under SpecJoin *)

\* A join_session call for a session the registry does not hold has returned
\* SessionNotFound and started nothing.
AbsentRejected ==
    \A t \in DOMAIN joins :
       joins[t].sid \notin DOMAIN sessions =>
          /\ joins[t].pc = "done"
          /\ joins[t].ret = SessionNotFound(joins[t].sid)
          /\ games[t] = NoGame

\* The step of such a call changes nothing but the record of the call.
AbsentChangesNothing ==
    (/\ Len(joins') = Len(joins) + 1
     /\ joins'[Len(joins')].sid \notin DOMAIN sessions)
    => /\ sessions' = sessions
       /\ channels' = channels
       /\ events' = events
       /\ hosts' = hosts
       /\ nextSessionId' = nextSessionId
       /\ \A t \in DOMAIN joins : joins'[t] = joins[t] /\ games'[t] = games[t]

\* C16: join_session(sid, uid, name) with sid absent from the registry fails
\* with SessionNotFound(sid) and leaves the registry and the users, conduits
\* and running state of every session unchanged.
C16_AbsentSessionRejected == []AbsentRejected /\ [][AbsentChangesNothing]_vars

\* A join for an absent session failed after a user had joined another one.
C16_Witness ==
    /\ Len(joins) = 2
    /\ joins[2].ret = SessionNotFound(joins[2].sid)
    /\ joins[1].ret = Ok
    /\ DOMAIN sessions[joins[1].sid].users # {}

-----------------------------------------------------------------------------
(* Properties of registration, checked under SpecRegister *)

\* The conduit maps of the sessions other than sid, and all of sid but its
\* conduit map, are as before.
OnlyConduitsOf(sid) ==
    /\ DOMAIN sessions' = DOMAIN sessions
    /\ \A s \in DOMAIN sessions \ {sid} : sessions'[s] = sessions[s]
    /\ sessions'[sid].users = sessions[sid].users
    /\ sessions'[sid].player_count = sessions[sid].player_count
    /\ sessions'[sid].session_type = sessions[sid].session_type

\* What the registration of conduit c returns and stores.
RegisterOutcome ==
    \A c \in DOMAIN events :
       events[c].pc = "register" /\ events'[c].pc = "done" =>
          LET sid == events[c].sid
              uid == events[c].uid
          IN
          IF sid \notin DOMAIN sessions
          THEN events'[c].ret = SessionNotFound(sid) /\ sessions' = sessions
          ELSE IF uid \notin DOMAIN sessions[sid].users
          THEN events'[c].ret = UserNotInSession(uid, sid) /\ sessions' = sessions
          ELSE /\ events'[c].ret = Ok
               /\ OnlyConduitsOf(sid)
               /\ DOMAIN sessions'[sid].server_event_senders =
                     DOMAIN sessions[sid].server_event_senders \cup {uid}
               /\ \A u \in DOMAIN sessions'[sid].server_event_senders :
                     sessions'[sid].server_event_senders[u] =
                        IF u = uid THEN c ELSE sessions[sid].server_event_senders[u]

\* C17: register_server_event_sender(sid, uid, conduit) fails with
\* SessionNotFound when sid is not in the registry and with UserNotInSession
\* when uid is not in the users of that session, and then stores no conduit
\* in any session; when uid is joined it stores the conduit under uid in
\* session sid only.
C17_RegisterOutcome == [][RegisterOutcome]_vars

\* One registration stored its conduit, another failed with UserNotInSession,
\* and the user of the first has joined both sessions.
C17_Witness ==
    \E c, d \in DOMAIN events :
       /\ events[c].ret = Ok
       /\ events[c].uid \in DOMAIN sessions[events[c].sid].server_event_senders
       /\ sessions[events[c].sid].server_event_senders[events[c].uid] = c
       /\ \A sid \in SessionIds :
             sid \in DOMAIN sessions /\ events[c].uid \in DOMAIN sessions[sid].users
       /\ events[d].ret.kind = "UserNotInSession"

\* The conduits stored in the sessions, with the place of each.
Stored ==
    {<<sid, uid>> \in SessionIds \X Users :
        sid \in DOMAIN sessions /\ uid \in DOMAIN sessions[sid].server_event_senders}

\* C19: in every reachable state the keys of the conduit map of a session are
\* among the keys of its users map, a conduit is stored for one user of one
\* session only and is that of an event stream that (sid, uid) opened, and a
\* joined user that opened no event stream has none.
C19_ConduitsOfJoinedUsers ==
    /\ \A sid \in DOMAIN sessions :
          DOMAIN sessions[sid].server_event_senders \subseteq DOMAIN sessions[sid].users
    /\ \A p \in Stored :
          LET c == sessions[p[1]].server_event_senders[p[2]] IN
          /\ c \in DOMAIN events
          /\ events[c].sid = p[1] /\ events[c].uid = p[2]
          /\ events[c].ret = Ok
    /\ \A p, q \in Stored :
          sessions[p[1]].server_event_senders[p[2]] =
             sessions[q[1]].server_event_senders[q[2]] => p = q

\* Of two users joined to a session one has a conduit there and the other,
\* who opened no event stream, has none.
C19_Witness ==
    \E sid \in DOMAIN sessions :
       /\ DOMAIN sessions[sid].users = {1, 2}
       /\ Cardinality(DOMAIN sessions[sid].server_event_senders) = 1
       /\ \E u \in {1, 2} : \A c \in DOMAIN events : events[c].uid # u

-----------------------------------------------------------------------------
(* Properties of the conduits of a running game, checked under SpecConduit *)

\* C20: once the game loop of a session runs with the conduits moved out of
\* the session state, no call of the RPC layer changes the conduit the loop
\* uses for a user: the inbound queue on which the loop awaits the responses
\* of uid stays open and is the one the responses addressed to (sid, uid)
\* are routed to.
C20_GameConduitsUntouched ==
    \A t \in DOMAIN games :
       games[t].state = "running" =>
          \A uid \in DOMAIN games[t].cb :
             /\ ~InboundClosed(games[t].cb[uid])
             /\ EventRegister(joins[t].sid, uid) \in DOMAIN channels
             /\ channels[EventRegister(joins[t].sid, uid)] = games[t].cb[uid]

-----------------------------------------------------------------------------
(* Properties of the registry, checked under SpecList *)

\* What a host_session call inserts and returns.
HostOutcome ==
    \A h \in DOMAIN hosts :
       hosts[h].pc = "insert" /\ hosts'[h].pc = "done" =>
          LET sid == hosts'[h].data.sid IN
          /\ hosts'[h].data = [sid |-> hosts[h].sid, session_type |-> hosts[h].typ,
                               users |-> {}]
          /\ sid \notin DOMAIN sessions
          /\ DOMAIN sessions' = DOMAIN sessions \cup {sid}
          /\ \A s \in DOMAIN sessions : sessions'[s] = sessions[s]
          /\ sessions'[sid] = [player_count |-> hosts[h].player_count,
                               users |-> << >>,
                               session_type |-> hosts[h].typ,
                               server_event_senders |-> << >>]

\* The names of the users joined to session sid.
JoinedNames(sid) == {sessions[sid].users[u] : u \in DOMAIN sessions[sid].users}

\* The type session sid was hosted with.
HostedType(sid) ==
    hosts[CHOOSE h \in DOMAIN hosts : hosts[h].sid = sid /\ hosts[h].pc = "done"].typ

\* Every entry of a list is that of a session of the registry, one entry per
\* session, with the type the session was hosted with.
ListEntries ==
    \A l \in DOMAIN lists : \A i \in DOMAIN lists[l].ret :
       LET e == lists[l].ret[i] IN
       /\ e.sid \in DOMAIN sessions
       /\ e.session_type = HostedType(e.sid)
       /\ \A j \in DOMAIN lists[l].ret : lists[l].ret[j].sid = e.sid => j = i

\* An entry carries the names of all the users joined when its session is
\* read, and the list returned has an entry for every session of the registry.
ListOutcome ==
    \A l \in DOMAIN lists :
       /\ Len(lists'[l].ret) = Len(lists[l].ret) + 1 =>
             LET e == lists'[l].ret[Len(lists'[l].ret)] IN e.users = JoinedNames(e.sid)
       /\ lists[l].pc = "read" /\ lists'[l].pc = "done" =>
             /\ {lists'[l].ret[i].sid : i \in DOMAIN lists'[l].ret} = DOMAIN sessions
             /\ Len(lists'[l].ret) = Cardinality(DOMAIN sessions)

\* C18: host_session(type, player_count) inserts into the registry a new
\* session with the returned SessionID, the given type and player_count, no
\* user and no conduit, and returns a descriptor with an empty users list;
\* list_sessions returns one entry per session of the registry, with the id
\* of the session, its type as set at host time and exactly the names of the
\* users joined when the session is read.
C18_HostAndList == []ListEntries /\ [][HostOutcome /\ ListOutcome]_vars

\* A list of two sessions was returned, one of them with a user.
C18_Witness ==
    \E l \in DOMAIN lists :
       /\ lists[l].pc = "done"
       /\ Len(lists[l].ret) = 2
       /\ \E i \in DOMAIN lists[l].ret : lists[l].ret[i].users # {}
       /\ lists[l].ret[1].session_type # lists[l].ret[2].session_type

-----------------------------------------------------------------------------
(* Properties of the routing table, checked under SpecGame *)

\* The event streams of (sid, uid) that the client still holds, or that are
\* being opened.
OpenStreams(sid, uid) ==
    {c \in DOMAIN events : /\ events[c].sid = sid
                           /\ events[c].uid = uid
                           /\ events[c].streamOpen}

\* C21: the routing table has an entry for (sid, uid) from the moment the
\* client opens its event stream, and the entry is removed when the stream
\* closes: after a stream of (sid, uid) has closed and no new one has been
\* opened, the routing table has no entry for (sid, uid).
C21_EntryRemovedOnClose ==
    \A c \in DOMAIN events :
       LET er == EventRegister(events[c].sid, events[c].uid) IN
       /\ events[c].streamOpen => er \in DOMAIN channels
       /\ (/\ events[c].ret = Ok
           /\ OpenStreams(events[c].sid, events[c].uid) = {})
          => er \notin DOMAIN channels

-----------------------------------------------------------------------------
(* Routing: the game loop of a session of two users, of whom those of K     *)
(* have a conduit, with respond_to_server_event called by anyone, at any    *)
(* time, with any response, for any (sid, uid), registered or not.          *)

\* The responses of a dice game that goes well, and one of another game.
RouteResponses ==
    {Pong("pong"), DiceGuess(<<1>>), CoinGuess(<<"Heads">>), Again(TRUE), Again(FALSE)}

NextRoute ==
    \/ \E t \in DOMAIN joins : GameSend(t)
    \/ \E t \in DOMAIN joins : GamePoll(t)
    \/ \E t \in DOMAIN joins : GameRound(t)
    \/ \E sid \in SessionIds, uid \in Users, cr \in RouteResponses :
          RespondToServerEvent(sid, uid, cr)

InitRoute ==
    \E K \in SUBSET (1..2), o \in Orders(1..2) : GameSpawned("Dice", 2, K, o)

SpecRoute == InitRoute /\ [][NextRoute]_vars

\* What a respond_to_server_event call with register er and response cr
\* leaves behind, after being its events.
Routed(er, cr, after) ==
    IF er \in DOMAIN channels
    THEN LET c == channels[er] IN
         /\ events[c].sid = er[1]
         /\ events[c].uid = er[2]
         /\ \A d \in DOMAIN events \ {c} : after[d] = events[d]
         /\ IF Accepted(er) THEN after[c] = [events[c] EXCEPT !.inb = Append(@, cr)]
            ELSE after[c] = events[c]
    ELSE ~Accepted(er) /\ after = events

\* C22: respond_to_server_event with register (sid, uid) enqueues the
\* response on the inbound queue registered under exactly (sid, uid) and on
\* no queue of another user or session; when the routing table has no entry
\* for (sid, uid) it returns an error and enqueues nothing anywhere.
C22_RoutedToRegistered ==
    \A sid \in SessionIds, uid \in Users, cr \in RouteResponses :
       Routed(EventRegister(sid, uid), cr, Responded(EventRegister(sid, uid), cr))

\* Both users have a conduit, and a response waits on the queue of the
\* second while that of the first is empty.
C22_Witness ==
    /\ DOMAIN channels = {EventRegister(1, 1), EventRegister(1, 2)}
    /\ events[channels[EventRegister(1, 2)]].inb # << >>
    /\ events[channels[EventRegister(1, 1)]].inb = << >>

-----------------------------------------------------------------------------
(* Properties of the forwarder, checked under SpecGame *)

\* C23: within one user's conduit the prompts reach the client's stream in
\* the order the coordinator sent them: while the client holds the stream,
\* what it has read, what waits in the stream and what waits in the outbound
\* queue are, in this order, the prompts sent, none reordered, repeated or
\* dropped.
C23_PromptsInOrder ==
    \A c \in DOMAIN events :
       events[c].streamOpen =>
          events[c].seen \o events[c].stream \o events[c].out = events[c].log

\* The client has read prompts and two more wait in its stream.
C23_Witness ==
    \E c \in DOMAIN events :
       /\ events[c].streamOpen
       /\ events[c].seen # << >>
       /\ Len(events[c].stream) = 2
       /\ events[c].stream[1] # events[c].stream[2]

-----------------------------------------------------------------------------
(* The game of one session with the clients of client.rs, whose handlers   *)
(* may fail on any prompt, notifications included; no stream is closed or  *)
(* opened again.                                                            *)

NextNotify ==
    \/ \E t \in DOMAIN joins : GameSend(t)
    \/ \E t \in DOMAIN joins : GamePoll(t)
    \/ \E t \in DOMAIN joins : GameRound(t)
    \/ \E c \in DOMAIN events : Forward(c)
    \/ \E c \in DOMAIN events : ClientRecv(c)
    \/ \E c \in DOMAIN events : ClientNotifyFails(c)
    \/ \E c \in DOMAIN events : ClientRespond(c)

InitNotify ==
    \E typ \in SessionTypes, n \in 1..Min(MaxPlayers, MaxUsers) :
       \E o \in Orders(1..n) : GameSpawned(typ, n, 1..n, o)

SpecNotify == InitNotify /\ [][NextNotify]_vars

\* The game threads that await a response on conduit c.
Callers(c) ==
    {t \in DOMAIN games : /\ games[t].state = "running"
                          /\ games[t].stage = "poll"
                          /\ Awaited(t) = c}

\* When a request-response prompt is sent, no response waits in the inbound
\* queue of the conduit: the call dequeues the head of that queue, so a
\* response found there at the send is the one the call returns.
AnswersFollowPrompt ==
    \A t \in DOMAIN games :
       (/\ games[t].state = "running"
        /\ games[t].stage = "send"
        /\ games'[t].stage = "poll")
       => events[Awaited(t)].inb = << >>

\* C24: at any time each conduit has at most one request-response prompt
\* outstanding and at most one caller awaiting its inbound queue, and the
\* response a call consumes was enqueued in answer to the prompt of that
\* call, never before that prompt was sent.
C24_OneOutstandingAnswered ==
    /\ [](\A c \in DOMAIN events : Cardinality(Callers(c)) <= 1)
    /\ [][AnswersFollowPrompt]_vars

-----------------------------------------------------------------------------
(* Properties of the lock scopes, checked under SpecGame *)

\* Task t is about to enqueue a prompt on the outbound queue of a conduit:
\* its game thread is at a send, or its report_error has found the conduit
\* of the user it turns to.
Enqueues(t) ==
    \/ /\ games[t].state = "running"
       /\ games[t].stage = "send"
       /\ games[t].phase \in {"ping", "guess", "winner", "again"}
       /\ games[t].order[games[t].idx] \in DOMAIN games[t].cb
    \/ /\ joins[t].pc = "report_locked"
       /\ joins[t].order[joins[t].idx] \in DOMAIN sessions[joins[t].sid].server_event_senders

\* Task t awaits a response on the inbound queue of a conduit.
AwaitsResponse(t) == games[t].state = "running" /\ games[t].stage = "poll"

\* The session locks task t holds.  The game thread works on the copies moved
\* into it and takes no lock; list_sessions, the only holder of the registry
\* lock across steps, sends no prompt.
HeldSessionLocks(t) == IF joins[t].pc = "report_locked" THEN {joins[t].sid} ELSE {}

\* C25: no registry lock and no session lock is held by a task at the moment
\* it enqueues a prompt (Ping, RollDice, FlipCoin, Winner, TryAgain or Error)
\* on the outbound queue of a conduit or awaits a response, so that a prompt
\* blocked on a full queue blocks no join, registration or list.
C25_NoLockWhilePrompting ==
    \A t \in DOMAIN joins :
       Enqueues(t) \/ AwaitsResponse(t) => HeldSessionLocks(t) = {}

-----------------------------------------------------------------------------
(* Properties of the failures of the game loop, checked under SpecGame *)

\* The user game g turns to.
Turn(g) == g.order[g.idx]

\* The game loop is about to prompt a user for whom the callback table has
\* no conduit.
Unrouted(g) ==
    /\ g.state = "running"
    /\ g.stage = "send"
    /\ g.phase \in {"ping", "guess", "winner", "again"}
    /\ Turn(g) \notin DOMAIN g.cb

\* The step the loop then takes ends it with ClientUnreachable(uid) and
\* sends nothing; no other step ends a loop with that error.
UnroutedFails ==
    \A t \in DOMAIN games :
       /\ Unrouted(games[t]) /\ games'[t] # games[t] =>
             /\ games'[t].state = "finished"
             /\ games'[t].result = ClientUnreachable(Turn(games[t]))
             /\ events' = events
       /\ (/\ games[t].state = "running"
           /\ games'[t].state = "finished"
           /\ games'[t].result.kind = "ClientUnreachable") => Unrouted(games[t])

\* Once a loop has ended no conduit of its callback table is sent a prompt.
SilentAfterEnd ==
    \A t \in DOMAIN games :
       games[t].state = "finished" =>
          \A u \in DOMAIN games[t].cb :
             events'[games[t].cb[u]].log = events[games[t].cb[u]].log

\* The task that awaits a loop ended by ClientUnreachable goes on to
\* report_error.
UnreachableReported ==
    \A t \in DOMAIN joins :
       (/\ joins[t].pc = "await_handle"
        /\ joins'[t].pc # "await_handle"
        /\ games[t].result.kind = "ClientUnreachable")
       => joins'[t].pc = "report"

\* C26: if the callback table has no conduit for uid when the game loop is
\* about to prompt uid, the loop fails with ClientUnreachable(uid), sends no
\* prompt to uid or to a user after uid, and the failure is handled as a
\* coordinator error, by the terminal error broadcast.
C26_UnreachableHandled ==
    [][UnroutedFails /\ SilentAfterEnd /\ UnreachableReported]_vars

-----------------------------------------------------------------------------
(* Properties of the winner, checked under SpecGame *)

\* C27: in every game started by quorum, whose user set is not empty, the
\* winner a round produces is a key of the users map of the game, so that
\* UnknownWinner is never raised, neither by dice_game or coin_game nor by the
\* lookup of the name of the winner.
C27_WinnerIsUser ==
    \A t \in DOMAIN games :
       games[t].state # "none" /\ DOMAIN games[t].users # {} =>
          /\ games[t].result # UnknownWinner
          /\ Len(games[t].scores) >= 1 => games[t].winner \in DOMAIN games[t].users
          /\ games[t].phase \in {"winner", "again"} =>
                /\ games[t].winner \in DOMAIN games[t].users
                /\ games[t].username = games[t].users[games[t].winner]

\* The winner of a round in which no user scored is being announced.
C27_Witness ==
    \E t \in DOMAIN games :
       /\ games[t].state = "running"
       /\ games[t].phase = "winner"
       /\ Len(games[t].scores) = 2
       /\ \A i \in DOMAIN games[t].scores : games[t].scores[i] = 0
       /\ games[t].winner \in DOMAIN games[t].users

-----------------------------------------------------------------------------
(* Properties of the phases of a round, checked under SpecGame *)

\* The prompts sent so far to user u of game g.
Sent(g, u) == events[g.cb[u]].log

\* The tag of the i-th prompt of a conduit in a game of type typ.
PhaseTag(typ, i) ==
    CASE (i - 1) % 4 = 0 -> "Ping"
      [] (i - 1) % 4 = 1 -> IF typ = "Dice" THEN "RollDice" ELSE "FlipCoin"
      [] (i - 1) % 4 = 2 -> "Winner"
      [] (i - 1) % 4 = 3 -> "TryAgain"

RequestTags == {"Ping", "RollDice", "FlipCoin", "TryAgain"}

\* Every conduit of a game carries Ping, RollDice or FlipCoin, Winner,
\* TryAgain, again and again; no user is sent the i-th prompt before every
\* user was sent the one before it; the users of a round are sent the same
\* Winner, which names a user by uid and name.
PhasesInOrder ==
    \A t \in DOMAIN games :
       LET g == games[t] IN
       g.state # "none" =>
          /\ DOMAIN g.cb # DOMAIN g.users =>
                \A u \in DOMAIN g.cb : Len(Sent(g, u)) <= 1
          /\ \A u \in DOMAIN g.cb : \A i \in DOMAIN Sent(g, u) :
                /\ Sent(g, u)[i].tag = PhaseTag(g.typ, i)
                /\ Sent(g, u)[i].tag = "Ping" => Sent(g, u)[i] = PingMsg("Game start")
                /\ Sent(g, u)[i].tag = "Winner" =>
                      /\ Sent(g, u)[i].a \in DOMAIN g.users
                      /\ Sent(g, u)[i].text = g.users[Sent(g, u)[i].a]
                /\ \A v \in DOMAIN g.cb :
                      /\ i >= 2 => Len(Sent(g, v)) >= i - 1
                      /\ Len(Sent(g, v)) >= i /\ Sent(g, u)[i].tag = "Winner" =>
                            Sent(g, v)[i] = Sent(g, u)[i]

\* The request-response prompts among those of a queue.
Requests(q) == {i \in DOMAIN q : q[i].tag \in RequestTags}

\* When a prompt is sent, every request-response prompt sent before it has
\* been answered: none waits to be read, no response waits to be taken.
AnsweredBeforeNext ==
    \A t \in DOMAIN games :
       LET g == games[t] IN
       (\E u \in DOMAIN g.cb : Len(events'[g.cb[u]].log) > Len(Sent(g, u)))
       => \A v \in DOMAIN g.cb :
             /\ Requests(events[g.cb[v]].out) = {}
             /\ Requests(events[g.cb[v]].stream) = {}
             /\ events[g.cb[v]].inb = << >>
             /\ events[g.cb[v]].reply = << >>

\* C28: in every round the prompts are issued in four phases, one after the
\* other: every user is sent Ping("Game start") and has answered before the
\* first RollDice or FlipCoin prompt, every user has been polled for a guess
\* before the first Winner prompt, every user has been sent the same Winner
\* before the first TryAgain prompt; the conduit of each user carries the
\* sequence Ping, RollDice or FlipCoin, Winner, TryAgain, repeated, with the
\* game prompt that of the type of the session.
C28_FourPhases == []PhasesInOrder /\ [][AnsweredBeforeNext]_vars

\* In the second round of a game of two users one user has been asked for a
\* guess and the other has answered the Ping.
C28_Witness ==
    \E t \in DOMAIN games :
       /\ games[t].state = "running"
       /\ games[t].rounds = 1
       /\ DOMAIN games[t].cb = {1, 2}
       /\ \E u, v \in {1, 2} :
             Len(Sent(games[t], u)) = 6 /\ Len(Sent(games[t], v)) = 5

-----------------------------------------------------------------------------
(* Properties of the end of the game loop, checked under SpecGame *)

\* A request-response call of game t returns a failure in this step.
CallFails(t) ==
    /\ games'[t].last # games[t].last
    /\ games'[t].last.ret.res # Ok

\* The first call that fails, and the first user without a conduit, end the
\* loop with that failure.
FailureEndsLoop ==
    \A t \in DOMAIN games :
       /\ CallFails(t) =>
             /\ games'[t].state = "finished"
             /\ games'[t].result = games'[t].last.ret.res
       /\ Unrouted(games[t]) /\ games'[t] # games[t] =>
             /\ games'[t].state = "finished"
             /\ games'[t].result = ClientUnreachable(Turn(games[t]))

\* The prompts this step adds to the log of conduit c.
NewPrompts(c) ==
    {events'[c].log[i] : i \in DOMAIN events'[c].log \ DOMAIN events[c].log}

\* A loop that has ended stays ended, and no conduit of a user of its session
\* is sent a prompt of the game any more.
EndedLoopIsSilent ==
    \A t \in DOMAIN games :
       games[t].state = "finished" =>
          /\ games'[t] = games[t]
          /\ \A c \in DOMAIN events :
                events[c].sid = joins[t].sid =>
                   \A p \in NewPrompts(c) : p.tag = "Error"

\* C29: the first failure of a prompt in the game loop (ping, roll_dice,
\* flip_coin, winner, try_again, or a missing conduit) terminates the loop:
\* after it no Ping, RollDice, FlipCoin, Winner or TryAgain prompt is sent to
\* any user of the session, and the failed prompt is not sent again.
C29_FirstFailureEndsLoop == [][FailureEndsLoop /\ EndedLoopIsSilent]_vars

\* The guess of the first of two users failed with a client error and the
\* second user was never asked for a guess.
C29_Witness ==
    \E t \in DOMAIN games :
       /\ games[t].state = "finished"
       /\ games[t].result = ClientError("boom")
       /\ games[t].last.op \in {"roll_dice", "flip_coin"}
       /\ Len(games[t].order) = 2
       /\ games[t].idx = 1
       /\ Len(Sent(games[t], games[t].order[2])) = 1

-----------------------------------------------------------------------------
(* A game played to its end: every user of the session has a conduit, no   *)
(* stream is closed or opened again, and the handler of every client       *)
(* succeeds on every prompt, so that each request-response prompt is       *)
(* answered with a response of the variant it expects.                     *)

\* The client reads a prompt and its handler succeeds.
ClientAnswers(c) ==
    /\ ClientRecv(c)
    /\ \A i \in DOMAIN events'[c].reply : events'[c].reply[i].tag # "ClientError"

NextPlay ==
    \/ \E t \in DOMAIN joins : GameSend(t)
    \/ \E t \in DOMAIN joins : GamePoll(t)
    \/ \E t \in DOMAIN joins : GameRound(t)
    \/ \E t \in DOMAIN joins : JoinAwaitHandle(t)
    \/ \E t \in DOMAIN joins : ReportErrorRead(t)
    \/ \E t \in DOMAIN joins : ReportErrorLock(t)
    \/ \E t \in DOMAIN joins : ReportErrorSend(t)
    \/ \E t \in DOMAIN joins : JoinReturn(t)
    \/ \E c \in DOMAIN events : Forward(c)
    \/ \E c \in DOMAIN events : ClientAnswers(c)
    \/ \E c \in DOMAIN events : ClientRespond(c)

\* The tasks of the server are scheduled fairly, and so are the clients:
\* each reads the prompts of its stream and sends the responses it made.
PlayFairness ==
    /\ WF_vars(\E t \in DOMAIN joins : GameSend(t))
    /\ WF_vars(\E t \in DOMAIN joins : GamePoll(t))
    /\ WF_vars(\E t \in DOMAIN joins : GameRound(t))
    /\ WF_vars(\E t \in DOMAIN joins : JoinAwaitHandle(t))
    /\ WF_vars(\E t \in DOMAIN joins : ReportErrorRead(t))
    /\ WF_vars(\E t \in DOMAIN joins : ReportErrorLock(t))
    /\ WF_vars(\E t \in DOMAIN joins : ReportErrorSend(t))
    /\ WF_vars(\E t \in DOMAIN joins : JoinReturn(t))
    /\ WF_vars(\E c \in DOMAIN events : Forward(c))
    /\ WF_vars(\E c \in DOMAIN events : ClientAnswers(c))
    /\ WF_vars(\E c \in DOMAIN events : ClientRespond(c))

FairSpecPlay == InitNotify /\ [][NextPlay]_vars /\ PlayFairness

\* A user of the running game t has answered try_again with false.
VotedFalse(t) ==
    /\ t \in DOMAIN games
    /\ games[t].state = "running"
    /\ \E u \in DOMAIN games[t].cb :
          \E i \in DOMAIN events[games[t].cb[u]].reply :
             events[games[t].cb[u]].reply[i] = Again(FALSE)

\* The game loop t has returned Ok and the task of the session has ended.
EndedOk(t) ==
    /\ t \in DOMAIN games
    /\ games[t].state = "finished"
    /\ games[t].result = Ok
    /\ joins[t].pc = "done"
    /\ joins[t].ret = Ok

\* C30: under fair scheduling, if every user of a running session has a
\* conduit, every client answers each request-response prompt with a response
\* of the expected variant, and in some round a user answers try_again with
\* false, then the game loop eventually terminates with success and the
\* session has ended.
C30_FalseVoteEndsGame ==
    \A t \in 1..MaxJoins : VotedFalse(t) ~> EndedOk(t)

\* A game of two users ended with success on the vote of the first user
\* polled, the second having voted to play again.
C30_Witness ==
    \E t \in DOMAIN games :
       /\ EndedOk(t)
       /\ games[t].votes = <<FALSE, TRUE>>

-----------------------------------------------------------------------------
(* Properties of the start of the game loop, checked under SpecRegister *)

\* Every event stream was opened by a user that was a member of the session
\* of the stream.
StreamsOfMembers ==
    \A c \in DOMAIN events :
       /\ events[c].ret.kind \notin {"SessionNotFound", "UserNotInSession"}
       /\ events[c].sid \in DOMAIN sessions
       /\ events[c].uid \in DOMAIN sessions[events[c].sid].users

\* C31: at the moment the game loop of a session starts, the conduit table
\* moved out of the session state holds a conduit for every user of the
\* users map of the session, the user whose join completed the quorum
\* included, in every execution in which each user opens its event stream
\* only after it is a member of the session.
C31_ConduitForEveryUser ==
    StreamsOfMembers =>
       \A t \in DOMAIN games :
          games[t].state # "none" => DOMAIN games[t].cb = DOMAIN games[t].users

\* ---------------------------------------------------------------------
\* The session lock under the joins of SpecJoin.

\* Join task t holds a read guard of its session and has asked for another
\* one, which the lock queues behind a waiting writer.
WaitsHoldingGuard(t) ==
    /\ joins[t].pc = "quorum_held"
    /\ WriterQueued(joins[t].sid)

\* C32: no task waits for the lock of a session while it holds a guard of
\* that same lock, so that the joins, registrations and listings of one
\* session cannot block each other for ever.
C32_NoWaitWhileHolding ==
    \A t \in DOMAIN joins : ~WaitsHoldingGuard(t)

\* ---------------------------------------------------------------------
\* The quorum test on large sessions.  host_session stores any u8 as the
\* player_count, 0 included, and a session takes any number of distinct
\* users: the n-th of them has just been inserted by its join_session.

InitQuorum ==
    \E typ \in SessionTypes, player_count \in 0..MaxPlayers, n \in 1..MaxCrowd :
       /\ nextSessionId = FirstSessionId + 1
       /\ sessions = (FirstSessionId :>
                        [NewSessionState(typ, player_count) EXCEPT
                            !.users = [u \in 1..n |-> UserNames[1]]])
       /\ hosts = <<[pc |-> "done", typ |-> typ, player_count |-> player_count,
                     sid |-> FirstSessionId, before |-> {},
                     data |-> SessionData(FirstSessionId, typ, {})]>>
       /\ joins = <<NewJoin(FirstSessionId, n, UserNames[1], "quorum", Pending)>>
       /\ games = <<NoGame>>
       /\ channels = EmptyMap
       /\ events = << >>
       /\ lists = << >>

NextQuorum ==
    \/ \E t \in DOMAIN joins : JoinQuorumLen(t)
    \/ \E t \in DOMAIN joins : JoinQuorum(t)

SpecQuorum == InitQuorum /\ [][NextQuorum]_vars

\* C33: a join_session goes on to game_setup only when the number of users
\* of its session is exactly the player_count, never at a larger count that
\* is equal to it modulo 256.
C33_StartsAtExactCount ==
    \A t \in DOMAIN joins :
       joins[t].pc = "setup" =>
          Cardinality(DOMAIN sessions[joins[t].sid].users)
             = sessions[joins[t].sid].player_count

\* ---------------------------------------------------------------------
\* server_events calls for pairs that are not members: sessions are hosted
\* and nobody joined, so every registration fails.

NextReject ==
    \/ \E sid \in SessionIds, uid \in Users : ServerEventsInsert(sid, uid)
    \/ \E c \in DOMAIN events : ServerEventsRegister(c)
    \/ \E sid \in SessionIds, uid \in Users, cr \in RouteResponses :
          RespondToServerEvent(sid, uid, cr)

SpecReject == InitJoin /\ [][NextReject]_vars

\* The server_events call of conduit c returned an error of the registration.
Rejected(c) ==
    events[c].ret.kind \in {"SessionNotFound", "UserNotInSession"}

\* C34: a server_events call whose registration fails leaves the routing
\* table as it was before the call: no entry of the table holds the inbound
\* sender the call created, and no response was accepted into its queue.
C34_RejectedCallLeavesNoEntry ==
    \A c \in DOMAIN events :
       Rejected(c) =>
          /\ \A er \in DOMAIN channels : channels[er] # c
          /\ events[c].inb = << >>

\* ---------------------------------------------------------------------
\* The frame of join_session: Dice sessions are hosted, users join and
\* register conduits; a join that completes the quorum stops before
\* game_setup.

NextFrame ==
    \/ \E pc \in PlayerCounts : HostFetchAdd("Dice", pc)
    \/ \E h \in DOMAIN hosts : HostInsert(h)
    \/ \E sid \in SessionIds, uid \in Users, name \in Range(UserNames) :
          JoinGetSession(sid, uid, name)
    \/ \E t \in DOMAIN joins : JoinCheck(t)
    \/ \E t \in DOMAIN joins : JoinWriteWait(t)
    \/ \E t \in DOMAIN joins : JoinInsert(t)
    \/ \E t \in DOMAIN joins : JoinQuorumLen(t)
    \/ \E t \in DOMAIN joins : JoinQuorum(t)
    \/ \E sid \in SessionIds, uid \in Users : ServerEventsInsert(sid, uid)
    \/ \E c \in DOMAIN events : ServerEventsRegister(c)

SpecFrame == Init /\ [][NextFrame]_vars

\* The positions of a join_session task before its quorum test has decided.
JoinBody == {"check", "insert", "insert_wait", "quorum", "quorum_held"}

\* This step is a step of join task t inside the body of join_session.
JoinStep(t) == joins[t].pc \in JoinBody /\ joins'[t] # joins[t]

\* The step changes nothing of the service but the users of the session of
\* task t, and there nothing but the entry of its user.
OnlyUserAdded(t) ==
    LET j == joins[t]
        old == sessions[j.sid]
        new == sessions'[j.sid]
    IN
    /\ DOMAIN sessions' = DOMAIN sessions
    /\ \A s \in DOMAIN sessions \ {j.sid} : sessions'[s] = sessions[s]
    /\ new.session_type = old.session_type
    /\ new.player_count = old.player_count
    /\ new.server_event_senders = old.server_event_senders
    /\ \/ new.users = old.users
       \/ /\ j.pc \in {"insert", "insert_wait"}
          /\ DOMAIN new.users = DOMAIN old.users \cup {j.uid}
          /\ new.users[j.uid] = j.name
          /\ \A u \in DOMAIN old.users \ {j.uid} : new.users[u] = old.users[u]

JoinFrame ==
    /\ Len(joins') > Len(joins) => sessions' = sessions
    /\ \A t \in DOMAIN joins : JoinStep(t) => OnlyUserAdded(t)

\* No step takes a session out of the registry or a user out of a session.
NothingRemoved ==
    /\ DOMAIN sessions \subseteq DOMAIN sessions'
    /\ \A s \in DOMAIN sessions :
          DOMAIN sessions[s].users \subseteq DOMAIN sessions'[s].users

\* A join_session that returned Ok has its user in the session.
JoinedIsUser ==
    \A t \in DOMAIN joins :
       joins[t].pc = "done" /\ joins[t].ret = Ok =>
          joins[t].uid \in DOMAIN sessions[joins[t].sid].users

\* C35: the steps of a join_session up to its quorum test change only the
\* users of its session, by the entry uid -> name; the registry's keys, the
\* session's type, player_count and conduits and every other session stay
\* as they are; a join that returned Ok has added its user; and no step of
\* any operation removes a session or a user.
C35_JoinFrame == []JoinedIsUser /\ [][JoinFrame /\ NothingRemoved]_vars

\* A join returned Ok short of the quorum, in a session that holds a
\* conduit, with a second session in the registry.
C35_Witness ==
    \E t \in DOMAIN joins :
       /\ joins[t].pc = "done" /\ joins[t].ret = Ok
       /\ ~Quorum(sessions[joins[t].sid])
       /\ sessions[joins[t].sid].server_event_senders # EmptyMap
       /\ Cardinality(DOMAIN sessions) = 2

=============================================================================
